---- MODULE Spec2Model ----
(***************************************************************************)
(* Model of the rank tracker server (src/server/server.js): the refresh    *)
(* orchestrator refreshAll, the incremental aggregator                     *)
(* updateChampionOverviewIncremental, the match-detail cache with its      *)
(* fetch budget, the promotion comparison and the /api/ban handler,        *)
(* together with the remote provider they poll and the persisted           *)
(* document data.json.                                                     *)
(*                                                                         *)
(* JavaScript runs one handler at a time and yields only at an await, so   *)
(* every action below is the code between two awaits of one handler.       *)
(*                                                                         *)
(* Left out: the static catalog getChampionsFromDdragon, which only names  *)
(* the rows of byChampion and is taken to answer; the texts of notes and   *)
(* names; the wall clock, of which only the order of the refreshes is      *)
(* kept (nowIso is the number of the refresh).                             *)
(***************************************************************************)
EXTENDS Integers, Sequences, FiniteSets, TLC

VARIABLES
  disk,     \* data.json: [players : roster -> player record, banHistory]
  prov,     \* the remote provider: per player the SoloQ entry and the match list
  cache,    \* matchDetailCache: the match ids whose detail is memoized
  budget,   \* MATCH_DETAIL_BUDGET
  rf,       \* the running refreshAll invocation (its locals and its state object)
  bn,       \* the running /api/ban handler (its locals and its state object)
  cnt,      \* how many refreshes, ban calls, provider events and faults may still
            \* happen, and the clock nowIso is read from
  rk,       \* inputs and result of one isPromotion evaluation
  ov,       \* two refreshAll invocations in flight at once, by their detail lookups
  gate,     \* one riotFetch call: its retries left, its requests, its outcome
  dd,       \* ddragonCache, the clock and the getChampionsFromDdragon calls in flight
  pool,     \* one countGamesByChampionFromMatches call: its queue and its workers
  yr        \* one fetchAllMatchIdsForYear call: its paging position and its result

vars == <<disk, prov, cache, budget, rf, bn, cnt, rk, ov, gate, dd, pool, yr>>

(***************************************************************************)
(* Bounds of the model.                                                    *)
(***************************************************************************)
NPlayers == 2            \* roster size
MaxEvents == 1           \* provider-side changes (games played, rank moves)
MaxCycles == 2           \* refreshAll invocations
MaxBanCalls == 2         \* /api/ban requests
MaxFaults == 1           \* remote calls that fail
AggEvents == 2           \* the same, where no ban handler runs (SpecAgg)
AggCycles == 2
AggFaults == 1
BudgetPerRefresh == 2    \* MATCH_DETAIL_BUDGET_PER_REFRESH (20 in the code), scaled
PageSize == 3            \* count=100 of the match listing, scaled
Last5N == 1              \* n of fetchLastNGamesSummary (5 in the code), scaled
MaxBacklog == 3          \* detail lookups of one invocation
OvCycles == 3            \* invocations started, two of them at a time
GateCalls == 2           \* calls of riotFetch
MaxRequests == 8         \* cap of the requests counted for one call
DdCalls == 4             \* calls of getChampionsFromDdragon
DdEvents == 3            \* clock ticks and Data Dragon releases
DdFaults == 1            \* catalog fetches that fail
MaxVersion == 2          \* Data Dragon versions
TtlTicks == 2            \* DDRAGON_TTL_MS (24 h) in ticks of 12 h
MaxPoolIds == 5          \* match ids handed to the worker pool
MaxPoolBudget == 4       \* budget the pool starts with
PoolFaults == 1          \* requests of the pool that fail
YearPage == 2            \* count=100 of the year listing, scaled
MaxYearIds == 5          \* ids the provider holds in the window at the start
YearCalls == 2           \* calls of fetchAllMatchIdsForYear
YearEvents == 2          \* matches played meanwhile
YearFaults == 1          \* page requests that fail
BootCalls == 3           \* calls of riotFetch in the bootstrap pass

DefaultRetries == 5
CONCURRENCY == 3
REMAKE_MAX_DURATION_SEC == 300
MIN_DELAY_MS == 1100
ApexFrom == 8            \* tierOrder.MASTER

Players == 1..NPlayers

Min2(a, b) == IF a <= b THEN a ELSE b

(***************************************************************************)
(* Strings of the ban handler: a champion name is a sequence of            *)
(* characters, so that trim, the whitespace collapse and toLowerCase are   *)
(* computed and not assumed.                                               *)
(***************************************************************************)
IsWs(c) == c \in {" ", "\t"}

ToLowerChar(c) ==
  CASE c = "A" -> "a"
    [] c = "L" -> "l"
    [] c = "S" -> "s"
    [] OTHER -> c

RECURSIVE TrimLeft(_)
TrimLeft(s) ==
  IF s = <<>> THEN <<>>
  ELSE IF IsWs(Head(s)) THEN TrimLeft(Tail(s)) ELSE s

RECURSIVE TrimRight(_)
TrimRight(s) ==
  IF s = <<>> THEN <<>>
  ELSE IF IsWs(s[Len(s)]) THEN TrimRight(SubSeq(s, 1, Len(s) - 1)) ELSE s

\* String.prototype.trim
Trim(s) == TrimRight(TrimLeft(s))

\* s.replace(/\s+/g, " ")
RECURSIVE CollapseWs(_)
CollapseWs(s) ==
  IF s = <<>> THEN <<>>
  ELSE IF IsWs(Head(s))
       THEN <<" ">> \o CollapseWs(TrimLeft(s))
       ELSE <<Head(s)>> \o CollapseWs(Tail(s))

ToLowerCase(s) == [i \in 1..Len(s) |-> ToLowerChar(s[i])]

\* norm of the ban handler
Norm(s) == ToLowerCase(CollapseWs(Trim(s)))

(***************************************************************************)
(* Rank snapshots.  kind "null" is a missing snapshot (null/undefined),    *)
(* "unranked" is {unranked: true}, "ranked" is a SoloQ entry.              *)
(***************************************************************************)
NullRank == [kind |-> "null", tier |-> "", division |-> "", lp |-> 0,
             wins |-> 0, losses |-> 0]
UnrankedRank == [kind |-> "unranked", tier |-> "", division |-> "", lp |-> 0,
                 wins |-> 0, losses |-> 0]
Ranked(t, d, lp, w, l) == [kind |-> "ranked", tier |-> t, division |-> d,
                           lp |-> lp, wins |-> w, losses |-> l]

\* String.prototype.toUpperCase on the tier and division strings that occur
ToUpperCase(s) ==
  CASE s = "gold" -> "GOLD"
    [] s = "iv" -> "IV"
    [] OTHER -> s

\* tierOrder[...] ?? 0
TierOrder(t) ==
  CASE t = "IRON" -> 1
    [] t = "BRONZE" -> 2
    [] t = "SILVER" -> 3
    [] t = "GOLD" -> 4
    [] t = "PLATINUM" -> 5
    [] t = "EMERALD" -> 6
    [] t = "DIAMOND" -> 7
    [] t = "MASTER" -> 8
    [] t = "GRANDMASTER" -> 9
    [] t = "CHALLENGER" -> 10
    [] OTHER -> 0

\* divOrder[...] ?? 0
DivOrder(d) ==
  CASE d = "IV" -> 1
    [] d = "III" -> 2
    [] d = "II" -> 3
    [] d = "I" -> 4
    [] OTHER -> 0

\* !rank || rank.unranked
Missing(r) == r.kind # "ranked"

\* the comparison with the league points as a tiebreaker inside a division
RankValueLp(oldRank, newRank) ==
  IF Missing(oldRank) \/ Missing(newRank) THEN FALSE
  ELSE LET oldTier == TierOrder(ToUpperCase(oldRank.tier))
           newTier == TierOrder(ToUpperCase(newRank.tier))
           apex == newTier >= ApexFrom
           oldDiv == IF apex THEN 0 ELSE DivOrder(ToUpperCase(oldRank.division))
           newDiv == IF apex THEN 0 ELSE DivOrder(ToUpperCase(newRank.division))
       IN  IF newTier # oldTier THEN newTier > oldTier
           ELSE IF newDiv # oldDiv THEN newDiv > oldDiv
           ELSE newRank.lp > oldRank.lp

\* the comparison that takes a missing or unranked previous snapshot as the
\* lowest rank
RankValueFromUnranked(oldRank, newRank) ==
  IF Missing(newRank) THEN FALSE
  ELSE LET oldTier == IF Missing(oldRank) THEN 0 ELSE TierOrder(ToUpperCase(oldRank.tier))
           newTier == TierOrder(ToUpperCase(newRank.tier))
           apex == newTier >= ApexFrom
           oldDiv == IF apex \/ Missing(oldRank) THEN 0
                     ELSE DivOrder(ToUpperCase(oldRank.division))
           newDiv == IF apex THEN 0 ELSE DivOrder(ToUpperCase(newRank.division))
       IN  IF newTier # oldTier THEN newTier > oldTier
           ELSE IF newDiv # oldDiv THEN newDiv > oldDiv
           ELSE FALSE

\* rankValue(oldRank, newRank) of the server: TRUE iff newRank is a promotion
rankValue(oldRank, newRank) ==
  IF Missing(oldRank) \/ Missing(newRank) THEN FALSE
  ELSE LET oldTier == TierOrder(ToUpperCase(oldRank.tier))
           newTier == TierOrder(ToUpperCase(newRank.tier))
           apex == newTier >= ApexFrom
           oldDiv == IF apex THEN 0 ELSE DivOrder(ToUpperCase(oldRank.division))
           newDiv == IF apex THEN 0 ELSE DivOrder(ToUpperCase(newRank.division))
       IN  IF newTier # oldTier THEN newTier > oldTier
           ELSE IF newDiv # oldDiv THEN newDiv > oldDiv
           ELSE FALSE

isPromotion(prevRank, newRank) == rankValue(prevRank, newRank)

(***************************************************************************)
(* The comparison of the older server (src/unnamed/part_001).  Its         *)
(* rankValue maps one snapshot to tIdx * 1000 + divScore * 10 +            *)
(* min(lp, 99) / 100; the value is kept here times 100, as an integer.     *)
(***************************************************************************)
\* tierOrder.indexOf(t): the same ladder as an array, from 0, -1 when absent
TierIndexOld(t) == TierOrder(t) - 1

\* divOrder.indexOf(d), from 0, -1 when absent
DivIndexOld(d) == DivOrder(d) - 1

rankValueOld(rank) ==
  IF Missing(rank) THEN -100
  ELSE LET t == ToUpperCase(rank.tier)
           d == ToUpperCase(rank.division)
           tIdx == TierIndexOld(t)
           isApex == t \in {"MASTER", "GRANDMASTER", "CHALLENGER"}
           dIdx == IF isApex THEN 3 ELSE DivIndexOld(d)
           divScore == IF dIdx = -1 THEN 0 ELSE dIdx
       IN  IF tIdx = -1 THEN -100
           ELSE tIdx * 100000 + divScore * 1000 + Min2(rank.lp, 99)

isPromotionOld(prevRank, newRank) == rankValueOld(newRank) > rankValueOld(prevRank)

(***************************************************************************)
(* The persisted document and its records.                                 *)
(***************************************************************************)
Champs == {1, 2}                 \* numeric champion ids that occur
ZeroCounts == [c \in Champs |-> 0]

NoPending == [set |-> FALSE, detectedAt |-> 0, from |-> NullRank, to |-> NullRank]
NoWL == [set |-> FALSE, wins |-> 0, losses |-> 0]
\* a year aggregate that does not exist yet (champGamesByYear["2026"] undefined);
\* counts[c] = 0 stands for "no key c", latestMatchId = 0 for "no marker"
NoStats == [exists |-> FALSE, hasCounts |-> FALSE, totalGames |-> 0,
            counts |-> ZeroCounts, byChampion |-> <<>>, latestMatchId |-> 0]
NoLast5 == [set |-> FALSE, games |-> <<>>]

EmptyDoc == [players |-> <<>>, banHistory |-> <<>>]

RECURSIVE SumSeq(_)
SumSeq(s) == IF s = <<>> THEN 0 ELSE Head(s) + SumSeq(Tail(s))

RECURSIVE SumOver(_, _)
SumOver(f, S) ==
  IF S = {} THEN 0
  ELSE LET x == CHOOSE y \in S : TRUE IN f[x] + SumOver(f, S \ {x})

SumCounts(counts) == SumOver(counts, DOMAIN counts)
SumList(list) == SumSeq([i \in 1..Len(list) |-> list[i].count])

\* list.sort((a, b) => b.count - a.count): a stable sort, descending by count
RECURSIVE InsertByCount(_, _)
InsertByCount(row, s) ==
  IF s = <<>> THEN <<row>>
  ELSE IF Head(s).count >= row.count
       THEN <<Head(s)>> \o InsertByCount(row, Tail(s))
       ELSE <<row>> \o s

RECURSIVE SortByCount(_)
SortByCount(s) ==
  IF s = <<>> THEN <<>>
  ELSE InsertByCount(s[Len(s)], SortByCount(SubSeq(s, 1, Len(s) - 1)))

\* Object.entries(countsByChampionId): the integer keys in ascending order
RECURSIVE EntriesFrom(_, _)
EntriesFrom(counts, c) ==
  IF c \notin DOMAIN counts THEN <<>>
  ELSE (IF counts[c] > 0 THEN <<[championId |-> c, count |-> counts[c]]>> ELSE <<>>)
       \o EntriesFrom(counts, c + 1)

\* byChampion rebuilt from the counts (lines 589-603)
RebuildByChampion(counts) == SortByCount(EntriesFrom(counts, 1))

\* the counts map of a legacy aggregate, from its byChampion rows
RECURSIVE MapFromRows(_, _)
MapFromRows(rows, acc) ==
  IF rows = <<>> THEN acc
  ELSE MapFromRows(Tail(rows), [acc EXCEPT ![Head(rows).championId] = Head(rows).count])

\* lines 492-499
ensureCountsMap(stats) ==
  IF stats.hasCounts THEN stats
  ELSE [stats EXCEPT !.hasCounts = TRUE,
                     !.counts = MapFromRows(stats.byChampion, ZeroCounts)]

(***************************************************************************)
(* The remote provider.  A match of player p is named by its position in   *)
(* the order played, so the listing, newest first, is n, n-1, ..., 1; its  *)
(* detail is [dur, champ], champ = 0 when the participants hold no entry   *)
(* of the player.  All matches lie in the year window and in queue 420.    *)
(***************************************************************************)
GoldIV == Ranked("GOLD", "IV", 10, 10, 10)
SilverI == Ranked("SILVER", "I", 40, 10, 10)

\* tier, division and league points the provider may report
RankPool == {[tier |-> "GOLD", division |-> "IV", lp |-> 10],
             [tier |-> "GOLD", division |-> "IV", lp |-> 60],
             [tier |-> "GOLD", division |-> "III", lp |-> 0]}

MatchKinds == {[dur |-> 1800, champ |-> 1],
               [dur |-> 300, champ |-> 2],
               [dur |-> 200, champ |-> 1],
               [dur |-> 0, champ |-> 2],
               [dur |-> 1800, champ |-> 0]}

\* the ids of the listing endpoint for player p, newest first, first page only
Listing(p, count) ==
  LET n == Len(prov[p].games)
  IN  [j \in 1..Min2(n, count) |-> n - j + 1]

Detail(p, id) == prov[p].games[id]

\* Number.isFinite(dur) && dur > 0 && dur < REMAKE_MAX_DURATION_SEC
IsRemake(m) == m.dur > 0 /\ m.dur < REMAKE_MAX_DURATION_SEC

(***************************************************************************)
(* Initial documents: a player as the bootstrap pass leaves it, a player   *)
(* whose aggregate was written by the older server (byChampion only, no    *)
(* counts map, no marker), and a player never refreshed.                   *)
(***************************************************************************)
BootPlayer ==
  [puuid |-> TRUE, currentRank |-> GoldIV, lastRank |-> NullRank,
   soloWL |-> [set |-> TRUE, wins |-> 10, losses |-> 10],
   pendingBan |-> NoPending, bans |-> <<>>,
   stats |-> [exists |-> TRUE, hasCounts |-> TRUE, totalGames |-> 1,
              counts |-> [c \in Champs |-> IF c = 1 THEN 1 ELSE 0],
              byChampion |-> <<[championId |-> 1, count |-> 1]>>,
              latestMatchId |-> 1],
   last5 |-> [set |-> TRUE, games |-> <<[matchId |-> 1, championId |-> 1, durationSec |-> 1800]>>],
   needsCatchup |-> FALSE, lastError |-> FALSE]

\* a bootstrapped player with a promotion pending and one ban on record
PendingPlayer ==
  [BootPlayer EXCEPT
     !.pendingBan = [set |-> TRUE, detectedAt |-> 0, from |-> SilverI, to |-> GoldIV],
     !.bans = <<[champion |-> <<"A">>]>>]

LegacyPlayer ==
  [puuid |-> TRUE, currentRank |-> GoldIV, lastRank |-> NullRank,
   soloWL |-> NoWL, pendingBan |-> NoPending, bans |-> <<>>,
   stats |-> [exists |-> TRUE, hasCounts |-> FALSE, totalGames |-> 1,
              counts |-> ZeroCounts,
              byChampion |-> <<[championId |-> 1, count |-> 1]>>,
              latestMatchId |-> 0],
   last5 |-> NoLast5, needsCatchup |-> FALSE, lastError |-> FALSE]

FreshPlayer ==
  [puuid |-> FALSE, currentRank |-> NullRank, lastRank |-> NullRank,
   soloWL |-> NoWL, pendingBan |-> NoPending, bans |-> <<>>,
   stats |-> NoStats, last5 |-> NoLast5,
   needsCatchup |-> FALSE, lastError |-> FALSE]

\* the history that goes with PendingPlayer's ban
BootHistory(p) ==
  [playerId |-> p, champion |-> <<"A">>,
   promotion |-> [set |-> TRUE, detectedAt |-> 0,
                 from |-> Ranked("SILVER", "II", 90, 9, 10), to |-> SilverI]]

\* the roster: player 1 bootstrapped, the others never refreshed
InitDocs ==
  {[players |-> [p \in Players |-> IF p = 1 THEN a ELSE FreshPlayer],
    banHistory |-> IF a = PendingPlayer THEN <<BootHistory(1)>> ELSE <<>>] :
      a \in {BootPlayer, PendingPlayer}}

\* the roster: player 1 bootstrapped, the others legacy or never refreshed
InitDocsAgg ==
  {[players |-> [p \in Players |-> IF p = 1 THEN BootPlayer ELSE b],
    banHistory |-> <<>>] :
      b \in {LegacyPlayer, FreshPlayer}}

\* what the provider holds at the start: every player GOLD IV with one game
\* played, or player 1 with two more games the server has not seen yet, or a
\* player without a game in the window
OneGame == [rank |-> GoldIV, games |-> <<[dur |-> 1800, champ |-> 1]>>]
NoGames == [rank |-> GoldIV, games |-> <<>>]
ThreeGames ==
  [rank |-> Ranked("GOLD", "IV", 10, 12, 10),
   games |-> <<[dur |-> 1800, champ |-> 1], [dur |-> 1800, champ |-> 2],
               [dur |-> 1800, champ |-> 1]>>]

IdleRf ==
  [pc |-> "idle", state |-> EmptyDoc, idx |-> 0, nowIso |-> 0,
   prevRank |-> NullRank, newRank |-> NullRank, prevTotal |-> 0, newTotal |-> 0,
   newIds |-> <<>>, matchIds |-> <<>>, out |-> <<>>, err |-> ""]

IdleBn == [pc |-> "idle", state |-> EmptyDoc, playerId |-> 0, champion |-> <<>>,
           status |-> 0, error |-> ""]

IdleRk == [prev |-> NullRank, new |-> NullRank, done |-> FALSE, res |-> FALSE,
           resOld |-> FALSE]

\* an invocation of refreshAll seen by its detail lookups only: how many uncached
\* lookups it still has to make and how many network calls it has issued
IdleInvocation == [pc |-> "idle", todo |-> 0, issued |-> 0, key |-> <<0, 0>>]
IdleOv == [i \in 1..2 |-> IdleInvocation]

\* riotFetch before it is called
IdleGate == [pc |-> "idle", retries |-> 0, requests |-> 0, waitedMs |-> 0,
             status |-> 0, body |-> "", sustained |-> FALSE, error |-> "",
             errStatus |-> 0, errBody |-> ""]

IdleDd == [pc |-> "idle"]

IdlePool == [pc |-> "idle"]

IdleYr == [pc |-> "idle", n |-> 0, startIdx |-> 0, all |-> <<>>, requests |-> 0,
           grew |-> FALSE]

Init ==
  /\ disk \in InitDocs
  /\ prov = [p \in Players |-> OneGame]
  /\ cache = {}
  /\ budget = 0
  /\ rf = IdleRf
  /\ bn = IdleBn
  /\ cnt = [cycles |-> MaxCycles, bans |-> MaxBanCalls, events |-> MaxEvents,
            faults |-> MaxFaults, clock |-> 0]
  /\ rk = IdleRk
  /\ ov = IdleOv
  /\ gate = IdleGate
  /\ dd = IdleDd
  /\ pool = IdlePool
  /\ yr = IdleYr

(***************************************************************************)
(* refreshAll (lines 612-677).                                             *)
(***************************************************************************)
\* ensurePuuidAndSummonerId makes a remote call only when the puuid is missing
StartPc(mem, p) == IF mem.players[p].puuid THEN "rank" ELSE "puuid"

\* the promotion check that overwrites a pending promotion
PromoCheckOverwrite(pl, prevRank, newRank, nowIso) ==
  IF isPromotion(prevRank, newRank)
  THEN [pl EXCEPT !.pendingBan = [set |-> TRUE, detectedAt |-> nowIso,
                                  from |-> prevRank, to |-> newRank]]
  ELSE pl

\* lines 655-664: create the pending ban, only if none exists
PromoCheck(pl, prevRank, newRank, nowIso) ==
  IF isPromotion(prevRank, newRank) /\ ~pl.pendingBan.set
  THEN [pl EXCEPT !.pendingBan = [set |-> TRUE, detectedAt |-> nowIso,
                                  from |-> prevRank, to |-> newRank]]
  ELSE pl

\* the end of the try body of player p (lines 653-664), then the next roster
\* entry, or after the last one the save of line 675; r is rf with the locals set
GoNext(r, mem0, p) ==
  LET mem == [mem0 EXCEPT !.players[p] = PromoCheck(@, r.prevRank, r.newRank, r.nowIso)]
  IN  IF p = NPlayers
      THEN /\ disk' = mem
           /\ rf' = [r EXCEPT !.pc = "done", !.state = mem, !.newIds = <<>>,
                              !.matchIds = <<>>, !.out = <<>>]
      ELSE /\ rf' = [IdleRf EXCEPT !.pc = StartPc(mem, p + 1), !.state = mem,
                                   !.idx = p + 1, !.nowIso = r.nowIso]
           /\ UNCHANGED disk

\* lines 665-672: an error thrown inside the try body of player p.  The catch block
\* names its parameter err and reads e, which is bound nowhere in the module:
\* evaluating e?.message throws a ReferenceError out of the catch block and so out
\* of refreshAll, with needsCatchup and lastError untouched and line 675 not
\* reached.  msg is the message of the error that was caught
Catch(mem, p, msg) ==
  /\ rf' = [rf EXCEPT !.pc = "threw", !.state = mem, !.err = msg]
  /\ UNCHANGED disk

\* lines 613-617: reset the budget, load the document
RefreshStart ==
  /\ rf.pc \in {"idle", "done", "threw"}
  /\ cnt.cycles > 0
  /\ budget' = BudgetPerRefresh
  /\ rf' = [IdleRf EXCEPT !.pc = StartPc(disk, 1), !.state = disk, !.idx = 1,
                          !.nowIso = cnt.clock + 1]
  /\ cnt' = [cnt EXCEPT !.cycles = @ - 1, !.clock = @ + 1]
  /\ UNCHANGED <<disk, prov, cache, bn, rk, ov, gate, dd, pool, yr>>

\* line 621, lines 304-315: the account lookup answered
PuuidOk ==
  /\ rf.pc = "puuid"
  /\ rf' = [rf EXCEPT !.pc = "rank", !.state.players[rf.idx].puuid = TRUE]
  /\ UNCHANGED <<disk, prov, cache, budget, bn, cnt, rk, ov, gate, dd, pool, yr>>

\* p.currentRank || p.lastRank || { unranked: true }
PrevRankOf(pl) ==
  IF pl.currentRank.kind # "null" THEN pl.currentRank
  ELSE IF pl.lastRank.kind # "null" THEN pl.lastRank
  ELSE UnrankedRank

\* the stored total taken as 0
PrevTotalZero(pl) == 0

\* lines 627-630
PrevTotalOf(pl) == IF pl.soloWL.set THEN pl.soloWL.wins + pl.soloWL.losses ELSE 0

\* lines 632-636: an unranked snapshot carries no wins and no losses
NewWLOf(newRank) ==
  IF newRank.kind = "ranked"
  THEN [set |-> TRUE, wins |-> newRank.wins, losses |-> newRank.losses]
  ELSE [set |-> TRUE, wins |-> 0, losses |-> 0]

\* lines 623-646 and 507-535: the rank lookup answered; store totals and ranks,
\* then either start the aggregator (up to its listing call) or end the body
RankOk ==
  /\ rf.pc = "rank"
  /\ LET p == rf.idx
         pl == rf.state.players[p]
         newRank == prov[p].rank
         prevRank == PrevRankOf(pl)
         prevTotal == PrevTotalOf(pl)
         newWL == NewWLOf(newRank)
         newTotal == newWL.wins + newWL.losses
         pl1 == [pl EXCEPT !.soloWL = newWL,
                           !.lastRank = IF pl.currentRank.kind # "null"
                                        THEN pl.currentRank ELSE pl.lastRank,
                           !.currentRank = newRank]
         r == [rf EXCEPT !.prevRank = prevRank, !.newRank = newRank,
                         !.prevTotal = prevTotal, !.newTotal = newTotal]
     IN  IF newTotal # prevTotal
         THEN LET st0 == IF pl1.stats.exists THEN pl1.stats
                         ELSE [NoStats EXCEPT !.exists = TRUE]
                  pl2 == [pl1 EXCEPT !.stats = ensureCountsMap(st0)]
              IN  /\ rf' = [r EXCEPT !.pc = "aggList", !.state.players[p] = pl2]
                  /\ UNCHANGED disk
         ELSE GoNext(r, [rf.state EXCEPT !.players[p] = pl1], p)
  /\ UNCHANGED <<prov, cache, budget, bn, cnt, rk, ov, gate, dd, pool, yr>>

(***************************************************************************)
(* fetchMatchDetail (lines 196-209) and the incremental aggregator         *)
(* updateChampionOverviewIncremental (lines 501-610).                      *)
(***************************************************************************)
\* the budget test made before the cache is consulted
fetchMatchDetailBudgetFirst(key) ==
  IF budget <= 0 THEN "exceeded"
  ELSE IF key \in cache THEN "hit"
  ELSE "fetch"

\* the budget test taken one unit early
fetchMatchDetailEarly(key) ==
  IF key \in cache THEN "hit"
  ELSE IF budget <= 1 THEN "exceeded"
  ELSE "fetch"

\* what fetchMatchDetail does for a key: answer from the cache, throw
\* MATCH_DETAIL_BUDGET_EXCEEDED, or take one unit of budget and call the provider
fetchMatchDetail(key) ==
  IF key \in cache THEN "hit"
  ELSE IF budget <= 0 THEN "exceeded"
  ELSE "fetch"

\* the ids of the listing up to the marker, without the break at the marker
NewIdsNoBreak(ids, marker) == ids

\* lines 548-552: the ids of the listing, newest first, up to the marker (exclusive)
RECURSIVE NewIdsUntil(_, _)
NewIdsUntil(ids, marker) ==
  IF ids = <<>> THEN <<>>
  ELSE IF Head(ids) = marker THEN <<>>
  ELSE <<Head(ids)>> \o NewIdsUntil(Tail(ids), marker)

\* the marker kept as it is
KeepMarker(stats, ids) == stats

\* lines 541 and 555: the marker is set to the head of the listing
SetMarker(stats, ids) == [stats EXCEPT !.latestMatchId = ids[1]]

\* lines 572-586: one fetched match of the delta
CountMatch(stats, m) ==
  IF IsRemake(m) THEN stats
  ELSE IF m.champ = 0 THEN stats
  ELSE [stats EXCEPT !.counts[m.champ] = @ + 1, !.totalGames = @ + 1]

\* the end of the walk that replaces the aggregate by a new object built from the
\* counts, which carries no marker
FinishWalkNoMarker(stats) ==
  [stats EXCEPT !.byChampion = RebuildByChampion(stats.counts), !.latestMatchId = 0]

\* lines 589-603: byChampion is rebuilt from the counts
FinishWalk(stats) == [stats EXCEPT !.byChampion = RebuildByChampion(stats.counts)]

\* lines 536-561: the listing answered
AggListOk ==
  /\ rf.pc = "aggList"
  /\ LET p == rf.idx
         st == rf.state.players[p].stats
         ids == Listing(p, PageSize)
     IN  IF ids = <<>>
         THEN /\ rf' = [rf EXCEPT !.pc = "l5List"]
              /\ UNCHANGED disk
         ELSE IF st.latestMatchId = 0
         THEN LET mem == [rf.state EXCEPT !.players[p].stats = SetMarker(st, ids)]
              IN  /\ rf' = [rf EXCEPT !.pc = "l5List", !.state = mem]
                  /\ disk' = mem
         ELSE LET newIds == NewIdsUntil(ids, st.latestMatchId)
                  mem == [rf.state EXCEPT !.players[p].stats = SetMarker(st, ids)]
              IN  IF newIds = <<>>
                  THEN /\ rf' = [rf EXCEPT !.pc = "l5List", !.state = mem]
                       /\ disk' = mem
                  ELSE /\ rf' = [rf EXCEPT !.pc = "aggDetail", !.state = mem,
                                           !.newIds = newIds]
                       /\ UNCHANGED disk
  /\ UNCHANGED <<prov, cache, budget, bn, cnt, rk, ov, gate, dd, pool, yr>>

\* lines 569-609: one id of the delta; after the last one the list is rebuilt
\* and the document saved
AggDetail ==
  /\ rf.pc = "aggDetail"
  /\ LET p == rf.idx
         id == Head(rf.newIds)
         how == fetchMatchDetail(<<p, id>>)
         st == CountMatch(rf.state.players[p].stats, Detail(p, id))
         rest == Tail(rf.newIds)
     IN  IF how = "exceeded"
         THEN /\ Catch(rf.state, p, "MATCH_DETAIL_BUDGET_EXCEEDED")
              /\ UNCHANGED <<cache, budget>>
         ELSE /\ cache' = cache \cup {<<p, id>>}
              /\ budget' = IF how = "fetch" THEN budget - 1 ELSE budget
              /\ IF rest = <<>>
                 THEN LET mem == [rf.state EXCEPT !.players[p].stats = FinishWalk(st)]
                      IN  /\ rf' = [rf EXCEPT !.pc = "l5List", !.state = mem,
                                              !.newIds = <<>>]
                          /\ disk' = mem
                 ELSE /\ rf' = [rf EXCEPT !.state.players[p].stats = st,
                                          !.newIds = rest]
                      /\ UNCHANGED disk
  /\ UNCHANGED <<prov, bn, cnt, rk, ov, gate, dd, pool, yr>>

(***************************************************************************)
(* fetchLastNGamesSummary (lines 370-442), called with n = Last5N.         *)
(***************************************************************************)
\* Math.min(n * 2, 20)
Last5Count == Min2(Last5N * 2, 20)

\* lines 386-391, 649-664: the listing answered
L5ListOk ==
  /\ rf.pc = "l5List"
  /\ LET p == rf.idx
         matchIds == Listing(p, Last5Count)
     IN  IF matchIds = <<>>
         THEN GoNext(rf, [rf.state EXCEPT !.players[p].last5 =
                                            [set |-> TRUE, games |-> <<>>]], p)
         ELSE /\ rf' = [rf EXCEPT !.pc = "l5Detail", !.matchIds = matchIds, !.out = <<>>]
              /\ UNCHANGED disk
  /\ UNCHANGED <<prov, cache, budget, bn, cnt, rk, ov, gate, dd, pool, yr>>

\* lines 399-438: one fetched match of the summary
Summarise(out, id, m) ==
  IF IsRemake(m) THEN out
  ELSE IF m.champ = 0 THEN out
  ELSE Append(out, [matchId |-> id, championId |-> m.champ, durationSec |-> m.dur])

\* lines 394-441, 651-664: one id of the summary; the loop ends with the ids or
\* with n games, and the body of the player ends with it
L5Detail ==
  /\ rf.pc = "l5Detail"
  /\ LET p == rf.idx
         id == Head(rf.matchIds)
         how == fetchMatchDetail(<<p, id>>)
         out == Summarise(rf.out, id, Detail(p, id))
         rest == Tail(rf.matchIds)
     IN  IF how = "exceeded"
         THEN /\ Catch(rf.state, p, "MATCH_DETAIL_BUDGET_EXCEEDED")
              /\ UNCHANGED <<cache, budget>>
         ELSE /\ cache' = cache \cup {<<p, id>>}
              /\ budget' = IF how = "fetch" THEN budget - 1 ELSE budget
              /\ IF rest = <<>> \/ Len(out) >= Last5N
                 THEN GoNext(rf, [rf.state EXCEPT !.players[p].last5 =
                                                    [set |-> TRUE, games |-> out]], p)
                 ELSE /\ rf' = [rf EXCEPT !.matchIds = rest, !.out = out]
                      /\ UNCHANGED disk
  /\ UNCHANGED <<prov, bn, cnt, rk, ov, gate, dd, pool, yr>>

\* a remote call of the try body fails (riotFetch throws); a detail fetch has
\* taken its unit of budget before the call
RemoteFail ==
  /\ cnt.faults > 0
  /\ \/ /\ rf.pc \in {"puuid", "rank", "aggList", "l5List"}
        /\ UNCHANGED budget
     \/ /\ rf.pc = "aggDetail"
        /\ fetchMatchDetail(<<rf.idx, Head(rf.newIds)>>) = "fetch"
        /\ budget' = budget - 1
     \/ /\ rf.pc = "l5Detail"
        /\ fetchMatchDetail(<<rf.idx, Head(rf.matchIds)>>) = "fetch"
        /\ budget' = budget - 1
  /\ Catch(rf.state, rf.idx, "Riot API 500")
  /\ cnt' = [cnt EXCEPT !.faults = @ - 1]
  /\ UNCHANGED <<prov, cache, bn, rk, ov, gate, dd, pool, yr>>

(***************************************************************************)
(* POST /api/ban (lines 785-850).  playerId -1 is a request without a      *)
(* playerId, 0 an id no roster entry has.                                  *)
(***************************************************************************)
BanPlayerIds == Players \cup {0, -1}

ChampInputs == {<<" ">>, <<"A">>, <<"a", " ">>, <<"l", "\t", " ", "S">>}

\* the duplicate check on the raw champion strings
AlreadyBannedRaw(pl, champ) ==
  \E i \in 1..Len(pl.bans) : pl.bans[i].champion = champ

\* lines 809-810
AlreadyBanned(pl, champ) ==
  \E i \in 1..Len(pl.bans) : Norm(pl.bans[i].champion) = Norm(champ)

\* the answers of the handler: the HTTP status and the error of the body
Ok200 == [status |-> 200, error |-> ""]
Required400 == [status |-> 400, error |-> "playerId und champion sind erforderlich."]
NotFound404 == [status |-> 404, error |-> "Spieler nicht gefunden."]
NoUprank409 == [status |-> 409, error |-> "Kein Uprank erkannt."]          \* shortened
Banned409 == [status |-> 409, error |-> "Champion ist bereits gebannt."]   \* shortened

\* the checks without the one for a pending promotion
BanStatusNoPendingCheck(doc, playerId, champ) ==
  IF playerId \notin DOMAIN doc.players THEN NotFound404
  ELSE IF AlreadyBanned(doc.players[playerId], champ) THEN Banned409
  ELSE Ok200

\* lines 795-815: the answer the loaded document leads to
BanStatus(doc, playerId, champ) ==
  IF playerId \notin DOMAIN doc.players THEN NotFound404
  ELSE IF ~doc.players[playerId].pendingBan.set THEN NoUprank409
  ELSE IF AlreadyBanned(doc.players[playerId], champ) THEN Banned409
  ELSE Ok200

\* the write that keeps the pending promotion
BanApplyKeepPending(doc, playerId, champ) ==
  LET pl == doc.players[playerId]
      entry == [playerId |-> playerId, champion |-> champ, promotion |-> pl.pendingBan]
  IN  [doc EXCEPT !.players[playerId].bans = Append(@, [champion |-> champ]),
                  !.banHistory = <<entry>> \o @]

\* lines 819-846: the ban record, the history entry with a copy of the pending
\* promotion, the pending promotion cleared
BanApply(doc, playerId, champ) ==
  LET pl == doc.players[playerId]
      entry == [playerId |-> playerId, champion |-> champ, promotion |-> pl.pendingBan]
  IN  [doc EXCEPT !.players[playerId].bans = Append(@, [champion |-> champ]),
                  !.players[playerId].pendingBan = NoPending,
                  !.banHistory = <<entry>> \o @]

\* lines 786-794: the request arrives; 400 at once, or the document is loaded
BanRequest ==
  /\ bn.pc \in {"idle", "done"}
  /\ cnt.bans > 0
  /\ \E playerId \in BanPlayerIds, champion \in ChampInputs :
       LET champ == Trim(champion)
       IN  IF playerId = -1 \/ champ = <<>>
           THEN bn' = [pc |-> "done", state |-> EmptyDoc, playerId |-> playerId,
                       champion |-> champ, status |-> Required400.status,
                       error |-> Required400.error]
           ELSE bn' = [pc |-> "loaded", state |-> disk, playerId |-> playerId,
                       champion |-> champ, status |-> 0, error |-> ""]
  /\ cnt' = [cnt EXCEPT !.bans = @ - 1]
  /\ UNCHANGED <<disk, prov, cache, budget, rf, rk, ov, gate, dd, pool, yr>>

\* lines 795-849: the checks on the loaded document, then the write
BanDecide ==
  /\ bn.pc = "loaded"
  /\ LET res == BanStatus(bn.state, bn.playerId, bn.champion)
     IN  /\ bn' = [bn EXCEPT !.pc = "done", !.status = res.status,
                             !.error = res.error, !.state = EmptyDoc]
         /\ IF res.status # 200
            THEN UNCHANGED disk
            ELSE disk' = BanApply(bn.state, bn.playerId, bn.champion)
  /\ UNCHANGED <<prov, cache, budget, rf, cnt, rk, ov, gate, dd, pool, yr>>

(***************************************************************************)
(* The provider's side: games get played, ranks move.  The server sees the *)
(* provider only through the rank lookup and the two listings, and a       *)
(* provider step commutes with every other step of the server, so the      *)
(* steps are taken right before one of these reads.                        *)
(***************************************************************************)
ProviderObserved == rf.pc \in {"rank", "aggList", "l5List"}

\* a SoloQ game of player p ends and leaves the player at a rank of the pool; a
\* remake leaves wins and losses alone
ProviderGame ==
  /\ cnt.events > 0
  /\ ProviderObserved
  /\ \E p \in Players, k \in MatchKinds, r \in RankPool :
       prov' = [prov EXCEPT ![p].games = Append(@, k),
                            ![p].rank.wins = IF IsRemake(k) THEN @ ELSE @ + 1,
                            ![p].rank.tier = r.tier,
                            ![p].rank.division = r.division,
                            ![p].rank.lp = r.lp]
  /\ cnt' = [cnt EXCEPT !.events = @ - 1]
  /\ UNCHANGED <<disk, cache, budget, rf, bn, rk, ov, gate, dd, pool, yr>>

\* the league entry of player p moves to another tier, division or league points
ProviderRank ==
  /\ cnt.events > 0
  /\ ProviderObserved
  /\ \E p \in Players, r \in RankPool :
       /\ [tier |-> prov[p].rank.tier, division |-> prov[p].rank.division,
           lp |-> prov[p].rank.lp] # r
       /\ prov' = [prov EXCEPT ![p].rank.tier = r.tier,
                               ![p].rank.division = r.division,
                               ![p].rank.lp = r.lp]
  /\ cnt' = [cnt EXCEPT !.events = @ - 1]
  /\ UNCHANGED <<disk, cache, budget, rf, bn, rk, ov, gate, dd, pool, yr>>

\* the league entry counts a game the match listing does not show (yet)
ProviderWL ==
  /\ cnt.events > 0
  /\ ProviderObserved
  /\ \E p \in Players : prov' = [prov EXCEPT ![p].rank.losses = @ + 1]
  /\ cnt' = [cnt EXCEPT !.events = @ - 1]
  /\ UNCHANGED <<disk, cache, budget, rf, bn, rk, ov, gate, dd, pool, yr>>

Next ==
  \/ RefreshStart \/ PuuidOk \/ RankOk
  \/ AggListOk \/ AggDetail
  \/ L5ListOk \/ L5Detail
  \/ RemoteFail
  \/ BanRequest \/ BanDecide
  \/ ProviderGame \/ ProviderRank \/ ProviderWL

Spec == Init /\ [][Next]_vars

(***************************************************************************)
(* The refresh cycles alone, with no ban handler beside them.              *)
(***************************************************************************)
InitAgg ==
  /\ disk \in InitDocsAgg
  /\ prov \in {[p \in Players |-> IF p = 1 THEN g ELSE h] :
                 g \in {OneGame, ThreeGames}, h \in {OneGame, NoGames}}
  /\ cache = {}
  /\ budget = 0
  /\ rf = IdleRf
  /\ bn = IdleBn
  /\ cnt = [cycles |-> AggCycles, bans |-> 0, events |-> AggEvents,
            faults |-> AggFaults, clock |-> 0]
  /\ rk = IdleRk
  /\ ov = IdleOv
  /\ gate = IdleGate
  /\ dd = IdleDd
  /\ pool = IdlePool
  /\ yr = IdleYr

NextAgg ==
  \/ RefreshStart \/ PuuidOk \/ RankOk
  \/ AggListOk \/ AggDetail
  \/ L5ListOk \/ L5Detail
  \/ RemoteFail
  \/ ProviderGame \/ ProviderRank \/ ProviderWL

SpecAgg == InitAgg /\ [][NextAgg]_vars

(***************************************************************************)
(* isPromotion on its own: every pair of snapshots, compared once.         *)
(***************************************************************************)
RankTiers == {"SILVER", "GOLD", "gold", "DIAMOND", "MASTER", "GRANDMASTER", "WOOD"}
RankDivisions == {"IV", "II", "I", ""}
RankPoints == {0, 75}

RankInputs ==
  {NullRank, UnrankedRank} \cup
  {Ranked(t, d, lp, 10, 10) : t \in RankTiers, d \in RankDivisions, lp \in RankPoints}

InitRank ==
  /\ disk = EmptyDoc
  /\ prov = [p \in Players |-> OneGame]
  /\ cache = {}
  /\ budget = 0
  /\ rf = IdleRf
  /\ bn = IdleBn
  /\ cnt = [cycles |-> 0, bans |-> 0, events |-> 0, faults |-> 0, clock |-> 0]
  /\ rk \in {[prev |-> a, new |-> b, done |-> FALSE, res |-> FALSE, resOld |-> FALSE] :
               a \in RankInputs, b \in RankInputs}
  /\ ov = IdleOv
  /\ gate = IdleGate
  /\ dd = IdleDd
  /\ pool = IdlePool
  /\ yr = IdleYr

Compare ==
  /\ ~rk.done
  /\ rk' = [rk EXCEPT !.done = TRUE, !.res = isPromotion(rk.prev, rk.new),
                       !.resOld = isPromotionOld(rk.prev, rk.new)]
  /\ UNCHANGED <<disk, prov, cache, budget, rf, bn, cnt, ov, gate, dd, pool, yr>>

NextRank == Compare

SpecRank == InitRank /\ [][NextRank]_vars

(***************************************************************************)
(* Two invocations of refreshAll in flight at once (two POST /api/refresh, *)
(* lines 775-782; nothing serialises them), reduced to what they share:    *)
(* the counter MATCH_DETAIL_BUDGET (reset at line 613) and                 *)
(* matchDetailCache.  todo is the number of detail lookups the invocation  *)
(* still makes, issued the number of requests it has sent.                 *)
(***************************************************************************)
OvKeys == {<<p, id>> : p \in Players, id \in 1..2}

InitOverlap ==
  /\ disk = EmptyDoc
  /\ prov = [p \in Players |-> OneGame]
  /\ cache = {}
  /\ budget = 0
  /\ rf = IdleRf
  /\ bn = IdleBn
  /\ cnt = [cycles |-> OvCycles, bans |-> 0, events |-> 0, faults |-> 0, clock |-> 0]
  /\ rk = IdleRk
  /\ ov = IdleOv
  /\ gate = IdleGate
  /\ dd = IdleDd
  /\ pool = IdlePool
  /\ yr = IdleYr

\* line 613: the invocation starts by resetting the shared counter
OvStart(i) ==
  /\ ov[i].pc \in {"idle", "done", "threw"}
  /\ cnt.cycles > 0
  /\ budget' = BudgetPerRefresh
  /\ \E n \in 1..MaxBacklog :
       ov' = [ov EXCEPT ![i] = [IdleInvocation EXCEPT !.pc = "run", !.todo = n]]
  /\ cnt' = [cnt EXCEPT !.cycles = @ - 1]
  /\ UNCHANGED <<disk, prov, cache, rf, bn, rk, gate, dd, pool, yr>>

\* lines 196-205: fetchMatchDetail up to the await of riotFetch
OvLookup(i) ==
  /\ ov[i].pc = "run"
  /\ ov[i].todo > 0
  /\ \E key \in OvKeys :
       LET how == fetchMatchDetail(key)
       IN  IF how = "hit"
           THEN /\ ov' = [ov EXCEPT ![i].todo = @ - 1]
                /\ UNCHANGED budget
           ELSE IF how = "exceeded"
           THEN /\ ov' = [ov EXCEPT ![i].pc = "threw"]
                /\ UNCHANGED budget
           ELSE /\ ov' = [ov EXCEPT ![i].pc = "fetching", ![i].key = key,
                                    ![i].issued = @ + 1]
                /\ budget' = budget - 1
  /\ UNCHANGED <<disk, prov, cache, rf, bn, cnt, rk, gate, dd, pool, yr>>

\* lines 206-208: the provider answered, the record is cached
OvAnswer(i) ==
  /\ ov[i].pc = "fetching"
  /\ cache' = cache \cup {ov[i].key}
  /\ ov' = [ov EXCEPT ![i].pc = "run", ![i].todo = @ - 1]
  /\ UNCHANGED <<disk, prov, budget, rf, bn, cnt, rk, gate, dd, pool, yr>>

\* lines 675-676: the invocation returns
OvEnd(i) ==
  /\ ov[i].pc = "run"
  /\ ov[i].todo = 0
  /\ ov' = [ov EXCEPT ![i].pc = "done"]
  /\ UNCHANGED <<disk, prov, cache, budget, rf, bn, cnt, rk, gate, dd, pool, yr>>

NextOverlap ==
  \E i \in 1..2 : OvStart(i) \/ OvLookup(i) \/ OvAnswer(i) \/ OvEnd(i)

SpecOverlap == InitOverlap /\ [][NextOverlap]_vars

(***************************************************************************)
(* One call of riotFetch (lines 66-89) with the provider as environment.   *)
(* gate.sustained marks a call that the provider answers with 429 at every *)
(* attempt; gate.requests counts the requests sent for the call.           *)
(***************************************************************************)
Statuses == {200, 204, 404, 429, 500}

\* res.text() of a response; a body that cannot be read counts as "" (line 86)
Bodies == {"", "not found"}

\* res.ok
Ok(status) == status >= 200 /\ status <= 299

RetryAfterValues == {0, 2}

\* Math.random() * 500, its two ends
RandomMs == {0, 499}

\* line 81, the retries of the recursive call: never decremented
RetrySame(retries) == retries

\* line 81: retries - 1
RetryNext(retries) == retries - 1

InitGate ==
  /\ disk = EmptyDoc
  /\ prov = [p \in Players |-> OneGame]
  /\ cache = {}
  /\ budget = 0
  /\ rf = IdleRf
  /\ bn = IdleBn
  /\ cnt = [cycles |-> GateCalls, bans |-> 0, events |-> 0, faults |-> 0, clock |-> 0]
  /\ rk = IdleRk
  /\ ov = IdleOv
  /\ gate = IdleGate
  /\ dd = IdleDd
  /\ pool = IdlePool
  /\ yr = IdleYr

\* line 66-67: a caller calls riotFetch(url), retries defaults to 5, and the
\* first request goes out
GateCall ==
  /\ gate.pc \in {"idle", "ok", "failed", "rateLimited"}
  /\ cnt.cycles > 0
  /\ \E s \in BOOLEAN :
       gate' = [IdleGate EXCEPT !.pc = "fetch", !.retries = DefaultRetries,
                                !.requests = 1, !.sustained = s]
  /\ cnt' = [cnt EXCEPT !.cycles = @ - 1]
  /\ UNCHANGED <<disk, prov, cache, budget, rf, bn, rk, ov, dd, pool, yr>>

\* a failing response handled like a 429 with retries left
FailedRetried(g, status, body) ==
  [g EXCEPT !.pc = "sleep", !.status = status, !.body = body]

\* lines 85-87: the error of a response that is not ok, made of its status and
\* its body
Failed(g, status, body) ==
  [g EXCEPT !.pc = "failed", !.status = status, !.body = body,
            !.error = "Riot API", !.errStatus = status, !.errBody = body]

\* lines 69-88: the response of one attempt
GateResponse ==
  /\ gate.pc = "fetch"
  /\ \E status \in (IF gate.sustained THEN {429} ELSE Statuses), body \in Bodies,
        retryAfterSec \in RetryAfterValues, rnd \in RandomMs :
       LET waitMs == IF retryAfterSec > 0 THEN retryAfterSec * 1000 ELSE 500 + rnd
       IN  IF status = 429
           THEN IF gate.retries <= 0
                THEN gate' = [gate EXCEPT !.pc = "rateLimited", !.status = status,
                                          !.body = body,
                                          !.error = "Riot API 429 Rate limit exceeded",
                                          !.errBody = body]
                ELSE gate' = [gate EXCEPT !.pc = "sleep", !.status = status,
                                          !.body = body, !.waitedMs = waitMs]
           ELSE IF ~Ok(status)
           THEN gate' = Failed(gate, status, body)
           ELSE gate' = [gate EXCEPT !.pc = "ok", !.status = status, !.body = body]
  /\ UNCHANGED <<disk, prov, cache, budget, rf, bn, cnt, rk, ov, dd, pool, yr>>

\* lines 80-81 and 67: the timer fired, riotFetch calls itself and the next
\* request goes out
GateWake ==
  /\ gate.pc = "sleep"
  /\ gate.requests < MaxRequests
  /\ gate' = [gate EXCEPT !.pc = "fetch", !.retries = RetryNext(gate.retries),
                          !.requests = @ + 1]
  /\ UNCHANGED <<disk, prov, cache, budget, rf, bn, cnt, rk, ov, dd, pool, yr>>

NextGate == GateCall \/ GateResponse \/ GateWake

SpecGate == InitGate /\ [][NextGate]_vars

\* every request is answered and every timer of sleep fires
SpecGateFair == SpecGate /\ WF_vars(GateResponse) /\ WF_vars(GateWake)

(***************************************************************************)
(* getChampionsFromDdragon (lines 109-141) with ddragonCache (lines        *)
(* 93-98), called by two callers at a time.  Time is counted in ticks of   *)
(* 12 hours, so DDRAGON_TTL_MS is TtlTicks = 2 ticks.  The dataset of a    *)
(* version and a locale is named by that pair.                             *)
(***************************************************************************)
Langs == {"de_DE", "en_US"}

Callers == 1..2

\* lines 93-98
EmptyCatalog == [version |-> 0, lang |-> "", champions |-> <<>>, fetchedAt |-> 0]

IdleCall == [pc |-> "idle", lang |-> "", now |-> 0, version |-> 0, fetches |-> 0,
             ret |-> EmptyCatalog]

InitCatalog ==
  /\ disk = EmptyDoc
  /\ prov = [p \in Players |-> OneGame]
  /\ cache = {}
  /\ budget = 0
  /\ rf = IdleRf
  /\ bn = IdleBn
  /\ cnt = [cycles |-> DdCalls, bans |-> 0, events |-> DdEvents, faults |-> DdFaults,
            clock |-> 0]
  /\ rk = IdleRk
  /\ ov = IdleOv
  /\ gate = IdleGate
  /\ dd = [cache |-> EmptyCatalog, now |-> 1, latest |-> 1,
           calls |-> [c \in Callers |-> IdleCall], log |-> {}]
  /\ pool = IdlePool
  /\ yr = IdleYr

\* the test without the comparison of the locale
CacheHitAnyLang(c, lang, now) ==
  /\ c.champions # <<>>
  /\ c.version # 0
  /\ now - c.fetchedAt < TtlTicks

\* lines 111-116: the test for answering from the cache
CacheHit(c, lang, now) ==
  /\ c.champions # <<>>
  /\ c.version # 0
  /\ c.lang = lang
  /\ now - c.fetchedAt < TtlTicks

\* the new cache object with the fields of the old one where it has them
NewCacheMerged(old, version, lang, now) ==
  IF old.version = 0
  THEN [version |-> version, lang |-> lang, champions |-> <<version, lang>>,
        fetchedAt |-> now]
  ELSE [old EXCEPT !.champions = <<version, lang>>, !.fetchedAt = now]

\* line 139: the new cache object
NewCache(old, version, lang, now) ==
  [version |-> version, lang |-> lang, champions |-> <<version, lang>>,
   fetchedAt |-> now]

\* lines 109-120: the call up to the return of the cached object or to the
\* first await
DdCall(c) ==
  /\ dd.calls[c].pc \in {"idle", "returned", "threw"}
  /\ cnt.cycles > 0
  /\ \E lang \in Langs :
       IF CacheHit(dd.cache, lang, dd.now)
       THEN dd' = [dd EXCEPT !.calls[c] = [IdleCall EXCEPT !.pc = "returned",
                                             !.lang = lang, !.now = dd.now,
                                             !.ret = dd.cache]]
       ELSE dd' = [dd EXCEPT !.calls[c] = [IdleCall EXCEPT !.pc = "version",
                                             !.lang = lang, !.now = dd.now,
                                             !.fetches = 1]]
  /\ cnt' = [cnt EXCEPT !.cycles = @ - 1]
  /\ UNCHANGED <<disk, prov, cache, budget, rf, bn, rk, ov, gate, pool, yr>>

\* lines 120-122: the version list answered, the dataset is requested
DdVersionOk(c) ==
  /\ dd.calls[c].pc = "version"
  /\ dd' = [dd EXCEPT !.calls[c].pc = "data", !.calls[c].version = dd.latest,
                      !.calls[c].fetches = @ + 1]
  /\ UNCHANGED <<disk, prov, cache, budget, rf, bn, cnt, rk, ov, gate, pool, yr>>

\* lines 122-140: the dataset answered; the cache is replaced and returned
DdDataOk(c) ==
  /\ dd.calls[c].pc = "data"
  /\ LET call == dd.calls[c]
         new == NewCache(dd.cache, call.version, call.lang, call.now)
     IN  dd' = [dd EXCEPT !.cache = new, !.calls[c].pc = "returned",
                          !.calls[c].ret = new,
                          !.log = @ \cup {[version |-> call.version, lang |-> call.lang,
                                           fetchedAt |-> call.now]}]
  /\ UNCHANGED <<disk, prov, cache, budget, rf, bn, cnt, rk, ov, gate, pool, yr>>

\* lines 100-106, 120, 122: one of the two fetches fails and the call throws
DdFail(c) ==
  /\ dd.calls[c].pc \in {"version", "data"}
  /\ cnt.faults > 0
  /\ dd' = [dd EXCEPT !.calls[c].pc = "threw"]
  /\ cnt' = [cnt EXCEPT !.faults = @ - 1]
  /\ UNCHANGED <<disk, prov, cache, budget, rf, bn, rk, ov, gate, pool, yr>>

\* 12 hours pass
DdTick ==
  /\ cnt.events > 0
  /\ dd' = [dd EXCEPT !.now = @ + 1]
  /\ cnt' = [cnt EXCEPT !.events = @ - 1]
  /\ UNCHANGED <<disk, prov, cache, budget, rf, bn, rk, ov, gate, pool, yr>>

\* Data Dragon publishes a new version
DdRelease ==
  /\ cnt.events > 0
  /\ dd.latest < MaxVersion
  /\ dd' = [dd EXCEPT !.latest = @ + 1]
  /\ cnt' = [cnt EXCEPT !.events = @ - 1]
  /\ UNCHANGED <<disk, prov, cache, budget, rf, bn, rk, ov, gate, pool, yr>>

NextCatalog ==
  \/ \E c \in Callers : DdCall(c) \/ DdVersionOk(c) \/ DdDataOk(c) \/ DdFail(c)
  \/ DdTick
  \/ DdRelease

SpecCatalog == InitCatalog /\ [][NextCatalog]_vars

(***************************************************************************)
(* countGamesByChampionFromMatches (lines 211-239): up to CONCURRENCY       *)
(* workers share the index idx, and through fetchMatchDetail the budget    *)
(* and the cache.  A worker runs from one await to the next: it counts the *)
(* record it waited for, tests the loop condition, takes the next index    *)
(* and enters fetchMatchDetail up to its await.                            *)
(***************************************************************************)
Workers == 1..CONCURRENCY

PoolKey(i) == <<1, i>>

IdleWorker == [pc |-> "idle", key |-> <<0, 0>>]

\* me?.championId of a record: a champion id, or 0 for a record without the
\* player or without a numeric championId
PoolChamps == Champs \cup {0}

InitPool ==
  /\ disk = EmptyDoc
  /\ prov = [p \in Players |-> OneGame]
  /\ cache \in SUBSET {PoolKey(1), PoolKey(3)}
  /\ budget \in 0..MaxPoolBudget
  /\ rf = IdleRf
  /\ bn = IdleBn
  /\ cnt = [cycles |-> 0, bans |-> 0, events |-> 0, faults |-> PoolFaults, clock |-> 0]
  /\ rk = IdleRk
  /\ ov = IdleOv
  /\ gate = IdleGate
  /\ dd = IdleDd
  /\ \E n \in 0..MaxPoolIds :
     \E ch \in [1..n -> PoolChamps] :
       pool = [pc |-> "idle", len |-> n, idx |-> 0, B |-> budget, started |-> 0,
               total |-> 0, workers |-> [w \in Workers |-> IdleWorker],
               champs |-> ch, claims |-> <<>>, counts |-> [c \in PoolChamps |-> 0]]
  /\ yr = IdleYr

\* line 201 left out: the counter is not decremented
NoDecrement(b) == b

\* line 201: MATCH_DETAIL_BUDGET--
Decrement(b) == b - 1

\* every record counted, with or without a championId
CountedAlways(champId) == TRUE

\* line 229: Number.isFinite(champId)
Counted(champId) == champId \in Champs

\* lines 229-232: the record of a match is added to counts and total
CountRecord(pl, champId) ==
  IF Counted(champId)
  THEN [pl EXCEPT !.counts[champId] = @ + 1, !.total = @ + 1]
  ELSE pl

\* lines 220-224 and 196-206: worker w tests the loop condition, takes the next
\* index and runs fetchMatchDetail up to its await; s holds the pool, the budget
\* and the cache
Take(s, w) ==
  IF s.pool.idx >= s.pool.len
  THEN [s EXCEPT !.pool.workers[w].pc = "done"]
  ELSE LET key == PoolKey(s.pool.idx + 1)
           t == [s EXCEPT !.pool.idx = @ + 1, !.pool.workers[w].key = key,
                          !.pool.claims = Append(@, s.pool.idx + 1)]
       IN  IF key \in s.cache
           THEN [t EXCEPT !.pool.workers[w].pc = "hit"]
           ELSE IF s.budget <= 0
           THEN [t EXCEPT !.pool.workers[w].pc = "threw"]
           ELSE [t EXCEPT !.pool.workers[w].pc = "fetching",
                          !.pool.started = @ + 1,
                          !.budget = Decrement(@)]

RECURSIVE TakeAll(_, _, _)
TakeAll(s, w, n) == IF w > n THEN s ELSE TakeAll(Take(s, w), w + 1, n)

\* lines 236-237: the workers are started one after the other, each running up
\* to its first await
PoolStart ==
  /\ pool.pc = "idle"
  /\ LET s == TakeAll([pool |-> [pool EXCEPT !.pc = "running"], budget |-> budget,
                       cache |-> cache], 1, Min2(CONCURRENCY, pool.len))
     IN  /\ pool' = s.pool
         /\ budget' = s.budget
  /\ UNCHANGED <<disk, prov, cache, rf, bn, cnt, rk, ov, gate, dd, yr>>

\* lines 206-208 and 224-233: the record arrived (from the provider, which is
\* then cached, or from the cache); it is counted and the worker goes on
PoolResume(w) ==
  /\ pool.workers[w].pc \in {"fetching", "hit"}
  /\ LET c1 == IF pool.workers[w].pc = "fetching"
               THEN cache \cup {pool.workers[w].key} ELSE cache
         s == Take([pool |-> CountRecord(pool, pool.champs[pool.workers[w].key[2]]),
                    budget |-> budget, cache |-> c1], w)
     IN  /\ pool' = s.pool
         /\ budget' = s.budget
         /\ cache' = c1
  /\ UNCHANGED <<disk, prov, rf, bn, cnt, rk, ov, gate, dd, yr>>

\* line 206: riotFetch throws, and with it the worker
PoolFetchFail(w) ==
  /\ pool.workers[w].pc = "fetching"
  /\ cnt.faults > 0
  /\ pool' = [pool EXCEPT !.workers[w].pc = "threw"]
  /\ cnt' = [cnt EXCEPT !.faults = @ - 1]
  /\ UNCHANGED <<disk, prov, cache, budget, rf, bn, rk, ov, gate, dd, yr>>

NextPool == PoolStart \/ \E w \in Workers : PoolResume(w) \/ PoolFetchFail(w)

SpecPool == InitPool /\ [][NextPool]_vars

(***************************************************************************)
(* fetchAllMatchIdsForYear (lines 156-192) against a provider that holds   *)
(* yr.n ids in the window, numbered by age: the listing is n, n-1, .., 1.  *)
(* YearPage stands for the page size count=100.                            *)
(***************************************************************************)
\* the page the provider answers for start=startIdx and count=YearPage
YearPageOf(n, startIdx) ==
  LET left == IF n > startIdx THEN n - startIdx ELSE 0
  IN  [j \in 1..Min2(YearPage, left) |-> n - (startIdx + j) + 1]

\* the whole listing of the provider, newest first
YearListing(n) == [i \in 1..n |-> n - i + 1]

\* the loop left after any page that is not longer than the page size
IsLastPageOrFull(ids) == Len(ids) <= YearPage

\* line 188: ids.length < 100
IsLastPage(ids) == Len(ids) < YearPage

InitYear ==
  /\ disk = EmptyDoc
  /\ prov = [p \in Players |-> OneGame]
  /\ cache = {}
  /\ budget = 0
  /\ rf = IdleRf
  /\ bn = IdleBn
  /\ cnt = [cycles |-> YearCalls, bans |-> 0, events |-> YearEvents,
            faults |-> YearFaults, clock |-> 0]
  /\ rk = IdleRk
  /\ ov = IdleOv
  /\ gate = IdleGate
  /\ dd = IdleDd
  /\ pool = IdlePool
  /\ \E n \in 0..MaxYearIds :
       yr = [pc |-> "idle", n |-> n, startIdx |-> 0, all |-> <<>>, requests |-> 0,
             grew |-> FALSE]

\* lines 162-181: the call starts and requests the first page
YearCall ==
  /\ yr.pc \in {"idle", "returned", "threw"}
  /\ cnt.cycles > 0
  /\ yr' = [yr EXCEPT !.pc = "page", !.startIdx = 0, !.all = <<>>, !.requests = 1,
                      !.grew = FALSE]
  /\ cnt' = [cnt EXCEPT !.cycles = @ - 1]
  /\ UNCHANGED <<disk, prov, cache, budget, rf, bn, rk, ov, gate, dd, pool>>

\* lines 181-191: a page answered; the loop ends with it or requests the next
YearPageOk ==
  /\ yr.pc = "page"
  /\ LET ids == YearPageOf(yr.n, yr.startIdx)
     IN  IF ids = <<>>
         THEN yr' = [yr EXCEPT !.pc = "returned"]
         ELSE IF IsLastPage(ids)
         THEN yr' = [yr EXCEPT !.pc = "returned", !.all = @ \o ids,
                               !.startIdx = @ + Len(ids)]
         ELSE yr' = [yr EXCEPT !.all = @ \o ids, !.startIdx = @ + Len(ids),
                               !.requests = @ + 1]
  /\ UNCHANGED <<disk, prov, cache, budget, rf, bn, cnt, rk, ov, gate, dd, pool>>

\* line 181: riotFetch throws
YearFail ==
  /\ yr.pc = "page"
  /\ cnt.faults > 0
  /\ yr' = [yr EXCEPT !.pc = "threw"]
  /\ cnt' = [cnt EXCEPT !.faults = @ - 1]
  /\ UNCHANGED <<disk, prov, cache, budget, rf, bn, rk, ov, gate, dd, pool>>

\* the player finishes a match of the window, while a call waits for a page or
\* between calls
YearNewMatch ==
  /\ cnt.events > 0
  /\ yr' = [yr EXCEPT !.n = @ + 1, !.grew = (yr.grew \/ yr.pc = "page")]
  /\ cnt' = [cnt EXCEPT !.events = @ - 1]
  /\ UNCHANGED <<disk, prov, cache, budget, rf, bn, rk, ov, gate, dd, pool>>

NextYear == YearCall \/ YearPageOk \/ YearFail \/ YearNewMatch

SpecYear == InitYear /\ [][NextYear]_vars

(***************************************************************************)
(* riotFetch of the bootstrap pass (lines 883-903), called for the account *)
(* lookup (line 930), the league lookup (940), every page of the year      *)
(* listing (1003) and every match (1018).  An error leaves main and ends   *)
(* the process (lines 1129-1131), so no call follows a failed one.         *)
(* gate.requests counts the requests of the call and stays at MaxRequests  *)
(* once it got there: the loop of the code has no counter at all.          *)
(***************************************************************************)
\* line 888: Number(res.headers.get("retry-after") || "2"), in seconds
BootRetryAfter == {0, 2, 5}

\* line 889: Math.max(ra * 1000, 2000)
BootWaitMs(ra) == IF ra * 1000 >= 2000 THEN ra * 1000 ELSE 2000

InitBoot ==
  /\ disk = EmptyDoc
  /\ prov = [p \in Players |-> OneGame]
  /\ cache = {}
  /\ budget = 0
  /\ rf = IdleRf
  /\ bn = IdleBn
  /\ cnt = [cycles |-> BootCalls, bans |-> 0, events |-> 0, faults |-> 0, clock |-> 0]
  /\ rk = IdleRk
  /\ ov = IdleOv
  /\ gate = IdleGate
  /\ dd = IdleDd
  /\ pool = IdlePool
  /\ yr = IdleYr

\* lines 883-885: a step of main calls riotFetch(url) and the first request
\* goes out
BootCall ==
  /\ gate.pc \in {"idle", "ok"}
  /\ cnt.cycles > 0
  /\ \E s \in BOOLEAN :
       gate' = [IdleGate EXCEPT !.pc = "fetch", !.requests = 1, !.sustained = s]
  /\ cnt' = [cnt EXCEPT !.cycles = @ - 1]
  /\ UNCHANGED <<disk, prov, cache, budget, rf, bn, rk, ov, dd, pool, yr>>

\* lines 885-900: the response of one attempt
BootResponse ==
  /\ gate.pc = "fetch"
  /\ \E status \in (IF gate.sustained THEN {429} ELSE Statuses), body \in Bodies,
        ra \in BootRetryAfter :
       IF status = 429
       THEN gate' = [gate EXCEPT !.pc = "sleep", !.status = status, !.body = body,
                                 !.waitedMs = BootWaitMs(ra)]
       ELSE IF ~Ok(status)
       THEN gate' = Failed(gate, status, body)
       ELSE gate' = [gate EXCEPT !.pc = "pause", !.status = status, !.body = body,
                                 !.waitedMs = MIN_DELAY_MS]
  /\ UNCHANGED <<disk, prov, cache, budget, rf, bn, cnt, rk, ov, dd, pool, yr>>

\* lines 889-890 and 885: the timer fired, continue, the next request goes out
BootWake ==
  /\ gate.pc = "sleep"
  /\ gate' = [gate EXCEPT !.pc = "fetch", !.requests = Min2(@ + 1, MaxRequests)]
  /\ UNCHANGED <<disk, prov, cache, budget, rf, bn, cnt, rk, ov, dd, pool, yr>>

\* lines 899-900: the pause after a success is over, riotFetch returns
BootReturn ==
  /\ gate.pc = "pause"
  /\ gate' = [gate EXCEPT !.pc = "ok"]
  /\ UNCHANGED <<disk, prov, cache, budget, rf, bn, cnt, rk, ov, dd, pool, yr>>

NextBoot == BootCall \/ BootResponse \/ BootWake \/ BootReturn

SpecBoot == InitBoot /\ [][NextBoot]_vars

\* every request is answered and every timer of sleep fires
SpecBootFair ==
  SpecBoot /\ WF_vars(BootResponse) /\ WF_vars(BootWake) /\ WF_vars(BootReturn)

(***************************************************************************)
(* Properties.  The try body of player p is left by the step that moves    *)
(* refreshAll on to the next roster entry, to the final save, or out of    *)
(* the function with a thrown error.                                       *)
(***************************************************************************)
BodyPcs == {"puuid", "rank", "aggList", "aggDetail", "l5List", "l5Detail"}

InBody(p) == rf.pc \in BodyPcs /\ rf.idx = p

\* this step ends the try body of player p without an error
BodyEndsOk(p) == InBody(p) /\ (rf'.pc = "done" \/ (rf'.pc \in BodyPcs /\ rf'.idx = p + 1))

\* this step ends the work of refreshAll on player p, by the end of the body or by
\* an error
BodyEnds(p) == InBody(p) /\ (BodyEndsOk(p) \/ rf'.pc = "threw")

\* the previous and the new rank of the cycle for player p; the locals hold them
\* once the rank lookup has answered
CyclePrevRank(p) ==
  IF rf.pc \in {"puuid", "rank"} THEN PrevRankOf(rf.state.players[p]) ELSE rf.prevRank

CycleNewRank(p) ==
  IF rf.pc \in {"puuid", "rank"} THEN prov[p].rank ELSE rf.newRank

\* C1: a player's pendingBan is one record, set or not; when the body of a
\* player ends with a promotion detected (isPromotion of the cycle's previous and
\* new rank) while the player's pendingBan is already set, the pendingBan is
\* afterwards exactly what it was: detectedAt, from and to of the first detection
C1_PendingSingleton ==
  [][\A p \in Players :
       (/\ BodyEndsOk(p)
        /\ rf.pc # "puuid"
        /\ rf.state.players[p].pendingBan.set
        /\ isPromotion(CyclePrevRank(p), CycleNewRank(p)))
       => /\ rf'.state.players[p].pendingBan = rf.state.players[p].pendingBan
          /\ rf'.pc = "done" => disk'.players[p].pendingBan = rf.state.players[p].pendingBan
    ]_vars

\* a cycle has passed player 1, whose promotion GOLD IV -> GOLD III it saw while
\* the promotion SILVER I -> GOLD IV was pending, and the pending one is the old one
C1_Witness ==
  /\ rf.pc \in BodyPcs \cup {"done"}
  /\ rf.idx = 2
  /\ LET pl == rf.state.players[1]
     IN  /\ pl.pendingBan = [set |-> TRUE, detectedAt |-> 0, from |-> SilverI, to |-> GoldIV]
         /\ pl.lastRank.division = "IV"
         /\ pl.currentRank.division = "III"
         /\ isPromotion(pl.lastRank, pl.currentRank)

\* C2: a pendingBan that is set is cleared or replaced by no step of a refresh
\* cycle, neither in the state object of the cycle nor in the document its saves
\* write; the persisted pendingBan of a player changes from a set value only in
\* the step of a ban request that is answered with 200
C2_PendingUntilBan ==
  [][\A p \in Players :
       /\ (/\ rf.pc \in BodyPcs
           /\ rf.state.players[p].pendingBan.set)
          => rf'.state.players[p].pendingBan = rf.state.players[p].pendingBan
       /\ (/\ disk.players[p].pendingBan.set
           /\ disk'.players[p].pendingBan # disk.players[p].pendingBan)
          => (bn.pc = "loaded" /\ bn'.pc = "done" /\ bn'.status = 200 /\ rf' = rf)
    ]_vars

\* a refresh cycle has saved the document while a promotion was pending and a
\* further one was detected, and the pending promotion is on disk as it was
C2_Witness ==
  /\ rf.pc = "done"
  /\ cnt.clock >= 1
  /\ disk = rf.state
  /\ disk.players[1].pendingBan = [set |-> TRUE, detectedAt |-> 0, from |-> SilverI, to |-> GoldIV]
  /\ isPromotion(disk.players[1].lastRank, disk.players[1].currentRank)

(***************************************************************************)
(* The ladder the promotion order is stated against, written out on its    *)
(* own: the tiers from low to high, the divisions from low to high, no     *)
(* division inside the apex tiers.                                         *)
(***************************************************************************)
Ladder == <<"IRON", "BRONZE", "SILVER", "GOLD", "PLATINUM", "EMERALD", "DIAMOND",
            "MASTER", "GRANDMASTER", "CHALLENGER">>
ApexTiers == {"MASTER", "GRANDMASTER", "CHALLENGER"}
Divisions == <<"IV", "III", "II", "I">>

PosIn(seq, x) == CHOOSE i \in 1..Len(seq) : seq[i] = x

\* a ranked snapshot the provider can send: a tier of the ladder, and a division
\* unless the tier is an apex tier
WellFormed(r) ==
  /\ r.kind = "ranked"
  /\ \E i \in 1..Len(Ladder) : Ladder[i] = r.tier
  /\ r.tier \notin ApexTiers => \E i \in 1..Len(Divisions) : Divisions[i] = r.division

TierKey(r) == PosIn(Ladder, r.tier)
DivKey(r) == IF r.tier \in ApexTiers THEN 0 ELSE PosIn(Divisions, r.division)

\* the strict order by tier first and division second
Above(new, prev) ==
  \/ TierKey(new) > TierKey(prev)
  \/ TierKey(new) = TierKey(prev) /\ DivKey(new) > DivKey(prev)

\* C3: for ranked snapshots, isPromotion(prev, new) is exactly "new is above prev"
\* in the order keyed by tier index first and division index second; so
\* SILVER II < SILVER I < GOLD IV, MASTER is above DIAMOND I at any league points,
\* and two snapshots of the same tier and division are never a promotion whatever
\* their league points
C3_PromotionOrder ==
  rk.done =>
    /\ (WellFormed(rk.prev) /\ WellFormed(rk.new))
         => (rk.res <=> Above(rk.new, rk.prev))
    /\ (/\ rk.prev.kind = "ranked" /\ rk.new.kind = "ranked"
        /\ rk.prev.tier = rk.new.tier /\ rk.prev.division = rk.new.division)
         => ~rk.res
    /\ (/\ WellFormed(rk.prev) /\ WellFormed(rk.new)
        /\ rk.prev.tier = "DIAMOND" /\ rk.prev.division = "I" /\ rk.new.tier = "MASTER")
         => rk.res
    /\ (/\ WellFormed(rk.prev) /\ WellFormed(rk.new)
        /\ rk.prev.tier = "SILVER" /\ rk.prev.division = "II"
        /\ rk.new.tier = "SILVER" /\ rk.new.division = "I")
         => rk.res
    /\ (/\ WellFormed(rk.prev) /\ WellFormed(rk.new)
        /\ rk.prev.tier = "SILVER" /\ rk.prev.division = "I"
        /\ rk.new.tier = "GOLD" /\ rk.new.division = "IV")
         => rk.res

\* DIAMOND I with 75 points was compared with MASTER with none
C3_Witness ==
  /\ rk.done
  /\ rk.prev = Ranked("DIAMOND", "I", 75, 10, 10)
  /\ rk.new = Ranked("MASTER", "I", 0, 10, 10)
  /\ rk.res

\* the win+loss total the rank lookup of player p returns
CycleNewTotal(p) ==
  LET wl == NewWLOf(prov[p].rank) IN wl.wins + wl.losses

AfterRankPcs == {"aggList", "aggDetail", "l5List", "l5Detail"}

\* C4: when the rank lookup of a cycle has returned, for a player with no
\* pending promotion, a rank that is a promotion over the stored one together
\* with a changed win+loss total (stored GOLD IV 10/10, returned GOLD III 11/10),
\* the aggregator is started for the player and the work of the cycle on the
\* player ends with pendingBan = {detectedAt: now, from: old rank, to: new rank}
C4_PromotionScenario ==
  [][\A p \in Players :
       /\ (/\ InBody(p) /\ rf.pc = "rank" /\ rf'.pc # "threw" /\ rf' # rf
           /\ isPromotion(CyclePrevRank(p), CycleNewRank(p))
           /\ PrevTotalOf(rf.state.players[p]) # CycleNewTotal(p))
          => (rf'.pc = "aggList" /\ rf'.idx = p)
       /\ (/\ BodyEnds(p) /\ rf.pc \in AfterRankPcs
           /\ isPromotion(rf.prevRank, rf.newRank)
           /\ rf.newTotal # rf.prevTotal
           /\ ~rf.state.players[p].pendingBan.set)
          => rf'.state.players[p].pendingBan =
               [set |-> TRUE, detectedAt |-> rf.nowIso,
                from |-> rf.prevRank, to |-> rf.newRank]
    ]_vars

\* the request is one the handler has to reject, seen from the document it loaded
BanRejectable ==
  IF bn.playerId \notin DOMAIN bn.state.players THEN TRUE
  ELSE LET pl == bn.state.players[bn.playerId]
       IN  \/ ~pl.pendingBan.set
           \/ \E i \in 1..Len(pl.bans) : Norm(pl.bans[i].champion) = Norm(bn.champion)

\* C5: a ban request without a playerId or with an empty champion is answered 400
\* before anything is loaded; a request for an unknown player, for a player with
\* no pending promotion or for a champion already banned is answered 404 or 409;
\* in each case the answering step leaves the persisted document as it is
C5_RejectedBanMutatesNothing ==
  [][/\ (bn.pc \in {"idle", "done"} /\ bn' # bn)
        => /\ disk' = disk
           /\ (bn'.playerId = -1 \/ bn'.champion = <<>>)
                => (bn'.pc = "done" /\ bn'.status = 400 /\ bn'.error # "")
           /\ bn'.pc = "loaded" => bn'.state = disk
     /\ (bn.pc = "loaded" /\ bn'.pc = "done" /\ BanRejectable)
        => /\ disk' = disk
           /\ bn'.status \in {404, 409}
           /\ bn'.error # ""
    ]_vars

\* a request for player 2, who has no pending promotion, was answered 409
C5_Witness ==
  /\ bn.pc = "done"
  /\ bn.status = 409
  /\ bn.error = NoUprank409.error
  /\ bn.playerId = 2
  /\ ~disk.players[2].pendingBan.set

\* no two ban records of the player are equal after norm
NoDuplicateBans(pl) ==
  \A i, j \in 1..Len(pl.bans) :
    i < j => Norm(pl.bans[i].champion) # Norm(pl.bans[j].champion)

\* C6: in every persisted document no ban list holds two records whose champion
\* names are equal after trimming, collapsing whitespace and lower-casing; a
\* request whose champion is, so compared, in the ban list the handler loaded is
\* answered 409 and appends nothing
C6_BanIdempotencyGuard ==
  [][/\ \A p \in Players : NoDuplicateBans(disk'.players[p])
     /\ (/\ bn.pc = "loaded" /\ bn'.pc = "done"
         /\ bn.playerId \in Players
         /\ \E i \in 1..Len(bn.state.players[bn.playerId].bans) :
              Norm(bn.state.players[bn.playerId].bans[i].champion) = Norm(bn.champion))
        => /\ bn'.status = 409
           /\ disk' = disk
    ]_vars

\* the champion "a" was refused for player 1, whose ban list holds "A"
C6_Witness ==
  /\ bn.pc = "done"
  /\ bn.error = Banned409.error
  /\ bn.playerId = 1
  /\ bn.champion = <<"a">>
  /\ disk.players[1].bans = <<[champion |-> <<"A">>]>>

\* C7: the step that answers a ban request with 200 writes the document the
\* handler loaded with exactly one ban record appended to the player's list, one
\* history entry put in front that carries the pending promotion (detectedAt,
\* from, to) of the loaded document, the player's pendingBan cleared, and every
\* other field and every other player as loaded
C7_BanWrite ==
  [][(bn.pc = "loaded" /\ bn'.pc = "done" /\ bn'.status = 200)
       => LET p == bn.playerId
              old == bn.state
          IN  /\ p \in Players
              /\ old.players[p].pendingBan.set
              /\ disk'.players[p].bans = Append(old.players[p].bans, [champion |-> bn.champion])
              /\ Len(disk'.banHistory) = Len(old.banHistory) + 1
              /\ Tail(disk'.banHistory) = old.banHistory
              /\ Head(disk'.banHistory) =
                   [playerId |-> p, champion |-> bn.champion,
                    promotion |-> old.players[p].pendingBan]
              /\ disk'.players[p].pendingBan = NoPending
              /\ disk'.players[p] = [old.players[p] EXCEPT !.pendingBan = NoPending,
                                                           !.bans = disk'.players[p].bans]
              /\ \A q \in Players \ {p} : disk'.players[q] = old.players[q]
    ]_vars

\* a ban of "l S" was recorded for player 1 and the history holds the promotion
\* SILVER I -> GOLD IV that was pending
C7_Witness ==
  /\ bn.pc = "done"
  /\ bn.status = 200
  /\ bn.playerId = 1
  /\ Len(disk.players[1].bans) = 2
  /\ ~disk.players[1].pendingBan.set
  /\ Len(disk.banHistory) = 2
  /\ disk.banHistory[1].promotion =
       [set |-> TRUE, detectedAt |-> 0, from |-> SilverI, to |-> GoldIV]

\* the marker of player p in a document; a match id is the position of the match
\* in the order played, so of two ids the larger is the one nearer to the head of
\* the newest-first listing, and 0 (no marker) is older than every match
Cursor(doc, p) == doc.players[p].stats.latestMatchId

\* C8: over the refresh cycles of SpecAgg, whose provider only appends matches
\* and lists them newest first, the marker latestMatchId of a player never moves
\* to an older match: not in the state object of a cycle, and not in the document
\* the aggregator runs and the cycles save
C8_CursorMonotonic ==
  [][\A p \in Players :
       /\ Cursor(disk', p) >= Cursor(disk, p)
       /\ (rf.pc \in BodyPcs /\ rf'.pc \in BodyPcs \cup {"done", "threw"})
          => Cursor(rf'.state, p) >= Cursor(rf.state, p)
    ]_vars

\* a delta walk has ended and saved: the marker of player 1 went from match 1 to
\* the head of a listing of three or more
C8_Witness ==
  /\ rf.pc = "l5List"
  /\ rf.idx = 1
  /\ Len(prov[1].games) >= 3
  /\ Cursor(disk, 1) >= 3
  /\ disk = rf.state
  /\ disk.players[1].stats.totalGames >= 2

Consistent(st) ==
  /\ st.totalGames = SumCounts(st.counts)
  /\ st.totalGames = SumList(st.byChampion)

\* the aggregator has just returned to refreshAll
AggReturned == rf.pc = "l5List"

\* the aggregator has just been left by the budget error of a detail fetch
AggCutShort ==
  /\ rf.pc = "threw"
  /\ rf.newIds # <<>>
  /\ rf.err = "MATCH_DETAIL_BUDGET_EXCEEDED"

\* C9: after an incremental aggregator run, whether it seeded the marker, found
\* an empty delta, walked the whole delta or was cut short by the budget, the
\* aggregate it worked on has totalGames = the sum of countsByChampionId = the
\* sum of byChampion[].count
C9_CountConsistency ==
  (AggReturned \/ AggCutShort) => Consistent(rf.state.players[rf.idx].stats)

\* C10: an aggregator run that finds the stored marker at the head of the
\* listing (no match newer than the last run) changes nothing of the aggregate
\* when it prepares it and returns from the listing step with totalGames, every
\* count and byChampion as they were, in the state object and in the document it
\* saves
C10_NoDoubleCountOnReplay ==
  [][\A p \in Players :
       LET st == rf.state.players[p].stats
           ids == Listing(p, PageSize)
       IN  /\ (/\ InBody(p) /\ rf.pc = "rank" /\ rf'.pc = "aggList"
               /\ st.exists /\ st.hasCounts)
              => rf'.state.players[p].stats = st
           /\ (/\ InBody(p) /\ rf.pc = "aggList" /\ rf' # rf /\ rf'.pc # "threw"
               /\ ids # <<>>
               /\ st.latestMatchId = Head(ids))
              => /\ rf'.pc = "l5List"
                 /\ rf'.state.players[p].stats = st
                 /\ disk'.players[p].stats = st
    ]_vars

\* player 1 has played nothing since the bootstrap pass counted match 1, the
\* league entry shows one loss more, and the aggregator has run and returned
C10_Witness ==
  /\ rf.pc = "l5List"
  /\ rf.idx = 1
  /\ Len(prov[1].games) = 1
  /\ prov[1].rank.losses = 11
  /\ rf.newTotal = 21
  /\ rf.state.players[1].stats = BootPlayer.stats
  /\ disk.players[1].stats = BootPlayer.stats

\* a match the aggregator counts when it walks over it
Countable(m) == m.champ # 0 /\ ~(m.dur > 0 /\ m.dur < 300)

\* the matches of player p on champion c that are newer than marker lo and not
\* newer than marker hi
FreshMatches(p, c, lo, hi) ==
  {id \in (lo + 1)..hi :
     /\ id <= Len(prov[p].games)
     /\ Countable(prov[p].games[id])
     /\ prov[p].games[id].champ = c}

RECURSIVE SumCard(_, _, _, _)
SumCard(p, cs, lo, hi) ==
  IF cs = {} THEN 0
  ELSE LET c == CHOOSE x \in cs : TRUE
       IN  Cardinality(FreshMatches(p, c, lo, hi)) + SumCard(p, cs \ {c}, lo, hi)

\* C11: over refresh cycles, also those ended early by the budget or by a failing
\* remote call, every write of a player's aggregate adds to the persisted counts
\* and to totalGames at most the matches that lie between the marker persisted
\* before and the marker persisted with it, and the ids a walk counts are
\* distinct and newer than the persisted marker: a match id, once its count is
\* persisted, lies at or behind the marker and is never walked again
C11_NeverDoubleCount ==
  [][\A p \in Players :
       LET old == disk.players[p].stats
           new == disk'.players[p].stats
       IN  /\ old.hasCounts =>
                \A c \in Champs :
                  new.counts[c] - old.counts[c]
                    <= Cardinality(FreshMatches(p, c, old.latestMatchId, new.latestMatchId))
           /\ new.totalGames - old.totalGames
                <= SumCard(p, Champs, old.latestMatchId, new.latestMatchId)
           /\ (rf.pc = "aggDetail" /\ rf.idx = p) =>
                \A i \in 1..Len(rf.newIds) :
                  /\ rf.newIds[i] > old.latestMatchId
                  /\ i > 1 => rf.newIds[i] < rf.newIds[i - 1]
    ]_vars

\* the first cycle fetched one of the matches 3 and 2 of player 1 and was ended
\* early; the second one walked both, with one fetch, and its counts are saved
C11_Witness ==
  /\ rf.pc = "l5List"
  /\ rf.idx = 1
  /\ rf.nowIso = 2
  /\ Len(prov[1].games) = 3
  /\ cache = {<<1, 2>>, <<1, 3>>}
  /\ budget = BudgetPerRefresh - 1
  /\ disk.players[1].stats.totalGames = 3
  /\ disk.players[1].stats.latestMatchId = 3

\* C12: a fetched match whose duration is below the threshold of 300 seconds
\* adds nothing to totalGames, to a per-champion count or to the summary of the
\* recent games, whatever the duration below 300
C12_RemakeExclusion ==
  [][/\ (/\ rf.pc = "aggDetail"
         /\ rf'.pc # "threw"
         /\ Detail(rf.idx, Head(rf.newIds)).dur < 300)
        => /\ rf'.state.players[rf.idx].stats.totalGames
                = rf.state.players[rf.idx].stats.totalGames
           /\ rf'.state.players[rf.idx].stats.counts
                = rf.state.players[rf.idx].stats.counts
     /\ (/\ rf.pc = "l5Detail"
         /\ rf'.pc = "l5Detail"
         /\ Detail(rf.idx, Head(rf.matchIds)).dur < 300)
        => rf'.out = rf.out
     /\ \A p \in Players :
          \A i \in 1..Len(disk'.players[p].last5.games) :
            disk'.players[p].last5.games[i].durationSec >= 300
    ]_vars

\* the ids of the fresh listing of player p that are newer than the persisted
\* marker and that the walk in progress has behind it
Processed(p) ==
  LET ids == Listing(p, PageSize)
  IN  {id \in {ids[i] : i \in 1..Len(ids)} :
         /\ id > disk.players[p].stats.latestMatchId
         /\ \A j \in 1..Len(rf.newIds) : rf.newIds[j] # id}

\* C13: in the walk over the delta every uncached lookup made with budget left is
\* one fetch that takes one unit of budget; the uncached lookup made with no
\* budget left fails with MATCH_DETAIL_BUDGET_EXCEEDED without a network call
\* (cache and budget as they were), and at that point the counts of the aggregate
\* in memory are the persisted ones plus exactly the matches processed before,
\* and its marker is the head id of the fresh listing
C13_BudgetCutOff ==
  [][(rf.pc = "aggDetail" /\ cnt' = cnt /\ <<rf.idx, Head(rf.newIds)>> \notin cache)
       => LET p == rf.idx
              old == disk.players[p].stats
              new == rf'.state.players[p].stats
          IN  IF budget > 0
              THEN /\ budget' = budget - 1
                   /\ cache' = cache \cup {<<p, Head(rf.newIds)>>}
                   /\ rf'.pc # "threw"
              ELSE /\ budget' = budget
                   /\ cache' = cache
                   /\ disk' = disk
                   /\ rf'.pc = "threw"
                   /\ rf'.err = "MATCH_DETAIL_BUDGET_EXCEEDED"
                   /\ new.latestMatchId = Listing(p, PageSize)[1]
                   /\ old.hasCounts =>
                        /\ \A c \in Champs :
                             new.counts[c] = old.counts[c]
                               + Cardinality({id \in Processed(p) :
                                                /\ Countable(prov[p].games[id])
                                                /\ prov[p].games[id].champ = c})
                        /\ new.totalGames = old.totalGames
                             + Cardinality({id \in Processed(p) :
                                              Countable(prov[p].games[id])})
    ]_vars

\* a delta of three ids met a budget of two: two matches were fetched and
\* counted, the third lookup failed
C13_Witness ==
  /\ AggCutShort
  /\ Len(rf.newIds) = 1
  /\ budget = 0
  /\ Cardinality(Processed(rf.idx)) = BudgetPerRefresh
  /\ rf.state.players[rf.idx].stats.totalGames
       = disk.players[rf.idx].stats.totalGames + BudgetPerRefresh
  /\ rf.state.players[rf.idx].stats.latestMatchId = Listing(rf.idx, PageSize)[1]

\* C14: when a remote call made for a roster player fails during refreshAll, the
\* error is recorded as lastError of that player and the invocation goes on (to
\* the next player or to the final save); the error does not leave refreshAll
C14_FailureIsolation ==
  [][(rf.pc \in BodyPcs /\ cnt'.faults # cnt.faults)
       => /\ rf'.pc # "threw"
          /\ rf'.state.players[rf.idx].lastError
    ]_vars

\* C15: when a match-detail lookup of a player's cycle fails with
\* MATCH_DETAIL_BUDGET_EXCEEDED, the player is flagged needsCatchup, gets no
\* lastError for it, and the invocation goes on instead of failing
C15_BudgetNotHardError ==
  [][(/\ rf.pc = "aggDetail" \/ rf.pc = "l5Detail"
      /\ cnt' = cnt
      /\ budget <= 0
      /\ <<rf.idx, Head(IF rf.pc = "aggDetail" THEN rf.newIds ELSE rf.matchIds)>>
           \notin cache)
       => /\ rf'.pc # "threw"
          /\ rf'.state.players[rf.idx].needsCatchup
          /\ ~rf'.state.players[rf.idx].lastError
    ]_vars

\* C16: an invocation of refreshAll sends at most BudgetPerRefresh (20 in the
\* code) match-detail requests, whatever the number of lookups it has to make,
\* also while another invocation is in flight
C16_FetchBudgetBound ==
  \A i \in 1..2 : ov[i].issued <= BudgetPerRefresh

\* C17: an invocation of refreshAll writes the document once, when the last
\* roster player has been processed: a step of the invocation that writes the
\* document is the step that ends it
C17_SingleWriteAtEnd ==
  [][(rf.pc \in BodyPcs /\ bn' = bn /\ disk' # disk) => rf'.pc = "done"]_vars

\* the stored win+loss total of a loaded player and the total the provider reports
StoredTotal(pl) == IF pl.soloWL.set THEN pl.soloWL.wins + pl.soloWL.losses ELSE 0

FreshTotal(p) ==
  IF prov[p].rank.kind = "ranked" THEN prov[p].rank.wins + prov[p].rank.losses ELSE 0

\* C18: when the rank lookup of a player answers with a win+loss total equal to
\* the stored one, the body of the player ends in that step: no match listing and
\* no match detail is requested for the player (cache and budget as they were)
\* and the player's aggregate and summary of recent games stay as loaded
C18_CheapNoOp ==
  [][(/\ rf.pc = "rank"
      /\ rf' # rf
      /\ cnt' = cnt
      /\ StoredTotal(rf.state.players[rf.idx]) = FreshTotal(rf.idx))
       => /\ rf'.pc = "done" \/ rf'.idx = rf.idx + 1
          /\ rf'.state.players[rf.idx].stats = rf.state.players[rf.idx].stats
          /\ rf'.state.players[rf.idx].last5 = rf.state.players[rf.idx].last5
          /\ cache' = cache
          /\ budget' = budget
    ]_vars

\* player 1 went through the cycle with an unchanged total: nothing was fetched
\* and the aggregate in memory is the stored one; the loop stands at player 2
C18_Witness ==
  /\ rf.pc \in BodyPcs
  /\ rf.idx = 2
  /\ rf.nowIso = 1
  /\ rf.state.players[1].currentRank = prov[1].rank
  /\ StoredTotal(disk.players[1]) = FreshTotal(1)
  /\ StoredTotal(disk.players[1]) > 0
  /\ rf.state.players[1].stats = disk.players[1].stats
  /\ rf.state.players[1].last5 = disk.players[1].last5
  /\ cache = {}
  /\ budget = BudgetPerRefresh

\* C19: the promotion check of a player, with the creation of pendingBan, is done
\* before the aggregation of that player starts: when the rank lookup answers with
\* a promotion, no pendingBan is stored and the aggregation is entered, the
\* pendingBan is there on entry
C19_PromotionBeforeAggregation ==
  [][(/\ rf.pc = "rank"
      /\ rf'.pc = "aggList"
      /\ isPromotion(rf'.prevRank, rf'.newRank)
      /\ ~rf.state.players[rf.idx].pendingBan.set)
       => rf'.state.players[rf.idx].pendingBan.set
    ]_vars

\* C20: a call of riotFetch that the provider answers with 429 at every attempt
\* ends, after no more than DefaultRetries + 1 requests, with the rate-limit error
C20_GateTerminates ==
  /\ [](gate.requests <= DefaultRetries + 1)
  /\ (gate.pc = "fetch" /\ gate.sustained)
       ~> (/\ gate.pc = "rateLimited"
           /\ gate.error = "Riot API 429 Rate limit exceeded")

\* the call gave up after the retries were used
C20_Witness ==
  /\ gate.pc = "rateLimited"
  /\ gate.sustained
  /\ gate.retries = 0
  /\ gate.requests = DefaultRetries + 1

\* C21: a call of riotFetch that is answered with 429 at every attempt sends no
\* more than 5 requests
C21_AtMostFiveRequests ==
  gate.sustained => gate.requests <= 5

\* C22: a response with a status outside 200..299 other than 429 ends the call in
\* that step with an error that carries the status and the body of the response,
\* whether it is the first response of the call or comes after 429 retries, and
\* no further request is sent for the call
C22_OtherErrorsNotRetried ==
  [][/\ (/\ gate.pc = "fetch"
         /\ gate' # gate
         /\ gate'.status # 429
         /\ ~(gate'.status >= 200 /\ gate'.status <= 299))
        => /\ gate'.pc = "failed"
           /\ gate'.errStatus = gate'.status
           /\ gate'.errBody = gate'.body
           /\ gate'.requests = gate.requests
     /\ (gate.pc = "failed" /\ gate' # gate)
        => gate'.requests = 1 /\ gate'.retries = DefaultRetries
    ]_vars

\* a 404 with a body came after two 429 retries and ended the call
C22_Witness ==
  /\ gate.pc = "failed"
  /\ gate.requests = 3
  /\ gate.status = 404
  /\ gate.errStatus = 404
  /\ gate.errBody = "not found"

\* C23: a call of getChampionsFromDdragon(lang) returns the cached object with no
\* remote call exactly when the cache is populated, holds the locale asked for
\* and is younger than 24 hours (TtlTicks); otherwise it fetches the version,
\* then the dataset, and replaces the whole cache by the fetched version, the
\* locale, the dataset and the time the call read; a call whose fetch fails
\* leaves the cache as it was
C23_CatalogCacheRule ==
  [][\A c \in Callers :
       LET old == dd.calls[c]
           new == dd'.calls[c]
           fresh == /\ dd.cache # EmptyCatalog
                    /\ dd.cache.lang = new.lang
                    /\ dd.now - dd.cache.fetchedAt < TtlTicks
       IN  /\ (old.pc \in {"idle", "returned", "threw"} /\ new # old)
                => /\ IF fresh
                      THEN new.pc = "returned" /\ new.ret = dd.cache /\ new.fetches = 0
                      ELSE new.pc = "version" /\ new.fetches = 1
                   /\ dd'.cache = dd.cache
           /\ (old.pc = "version" /\ new # old)
                => /\ dd'.cache = dd.cache
                   /\ new.pc = "threw" \/ (new.pc = "data" /\ new.fetches = 2)
           /\ (old.pc = "data" /\ new # old)
                => \/ new.pc = "threw" /\ dd'.cache = dd.cache
                   \/ /\ new.pc = "returned"
                      /\ dd'.cache = [version |-> old.version, lang |-> old.lang,
                                      champions |-> <<old.version, old.lang>>,
                                      fetchedAt |-> old.now]
                      /\ new.ret = dd'.cache
    ]_vars

\* a populated cache that went stale was replaced by a refresh for the same
\* locale, and the other caller is answered from it
C23_Witness ==
  /\ dd.cache.fetchedAt >= 1 + TtlTicks
  /\ dd.calls[1].pc = "returned"
  /\ dd.calls[1].fetches = 2
  /\ dd.calls[1].ret = dd.cache
  /\ dd.calls[2].pc = "returned"
  /\ dd.calls[2].fetches = 0
  /\ dd.calls[2].ret = dd.cache

\* C24: whatever the interleaving of the calls, the cache is empty or holds the
\* version, the locale, the dataset and the time of one single completed refresh,
\* and a call that returned got a catalog of the locale it asked for
C24_CatalogRace ==
  /\ \/ dd.cache = EmptyCatalog
     \/ /\ [version |-> dd.cache.version, lang |-> dd.cache.lang,
            fetchedAt |-> dd.cache.fetchedAt] \in dd.log
        /\ dd.cache.champions = <<dd.cache.version, dd.cache.lang>>
  /\ \A c \in Callers :
       dd.calls[c].pc = "returned"
         => /\ dd.calls[c].ret.lang = dd.calls[c].lang
            /\ dd.calls[c].ret.champions = <<dd.calls[c].ret.version, dd.calls[c].lang>>

\* two refreshes for different locales raced: caller 2 read the version before a
\* release and wrote the cache after caller 1, which had read the newer version
C24_Witness ==
  /\ dd.calls[1].pc = "returned"
  /\ dd.calls[2].pc = "returned"
  /\ dd.calls[1].fetches = 2
  /\ dd.calls[2].fetches = 2
  /\ dd.calls[1].lang # dd.calls[2].lang
  /\ dd.calls[2].version < dd.calls[1].version
  /\ dd.cache = dd.calls[2].ret

\* C25: a key that is in the match-detail cache stays in it, and a lookup of such
\* a key, in the cycle that fetched it or in a later one, is answered without a
\* request: the budget and the cache stay as they are and the lookup does not
\* fail, also with the budget at 0
C25_Memoization ==
  [][/\ cache \subseteq cache'
     /\ \A pc \in {"aggDetail", "l5Detail"} :
          (/\ rf.pc = pc
           /\ <<rf.idx, Head(IF pc = "aggDetail" THEN rf.newIds ELSE rf.matchIds)>>
                \in cache)
            => /\ budget' = budget
               /\ cache' = cache
               /\ cnt' = cnt
               /\ rf'.pc # "threw"
               /\ rf' # rf
    ]_vars

\* in the first cycle the walk of player 1 fetched matches 3 and 2 and used the
\* budget up; the summary then got match 3 from the cache
C25_Witness ==
  /\ rf.nowIso = 1
  /\ rf.idx = 2
  /\ budget = 0
  /\ cache = {<<1, 2>>, <<1, 3>>}
  /\ Len(rf.state.players[1].last5.games) = 1
  /\ rf.state.players[1].last5.games[1].matchId = 3

\* C26: with the workers of the pool interleaved at their awaits in any order and
\* any starting budget B, the budget never goes below 0 and the number of
\* match-detail requests started never exceeds B
C26_PoolBudgetSafe ==
  /\ budget >= 0
  /\ pool.started <= pool.B
  /\ pool.started = pool.B - budget

\* a budget of 2 met three workers: two requests are in flight, the third worker
\* was refused
C26_Witness ==
  /\ pool.B = 2
  /\ budget = 0
  /\ pool.started = 2
  /\ pool.workers[1].pc = "fetching"
  /\ pool.workers[2].pc = "fetching"
  /\ pool.workers[3].pc = "threw"

\* C27: for a provider that holds n ids in the window during the call,
\* fetchAllMatchIdsForYear returns exactly these n ids in the order of the
\* provider, none left out and none twice, and it has then requested
\* n \div YearPage + 1 pages: it stops after the first page that is shorter than
\* the page size or empty, also when n is a multiple of the page size
C27_YearEnumeration ==
  [][(yr.pc = "page" /\ ~yr.grew /\ ~yr'.grew)
       => /\ yr'.requests <= yr.n \div YearPage + 1
          /\ yr'.pc = "returned" =>
               /\ yr'.all = YearListing(yr.n)
               /\ \A i, j \in 1..Len(yr'.all) : i # j => yr'.all[i] # yr'.all[j]
               /\ yr'.requests = yr.n \div YearPage + 1
    ]_vars

\* a listing of two full pages: the third request came back empty and ended
\* the call
C27_Witness ==
  /\ yr.pc = "returned"
  /\ ~yr.grew
  /\ yr.n = 2 * YearPage
  /\ Len(yr.all) = 2 * YearPage
  /\ yr.requests = 3

\* C28: when a marker is stored, the delta an incremental run sets out to
\* process is exactly the set of the player's matches that are newer than the
\* marker, however many there are
C28_DeltaExact ==
  [][(/\ rf.pc = "aggList"
      /\ rf' # rf
      /\ cnt' = cnt
      /\ rf.state.players[rf.idx].stats.latestMatchId # 0)
       => {rf'.newIds[i] : i \in 1..Len(rf'.newIds)}
            = {id \in 1..Len(prov[rf.idx].games) :
                 id > rf.state.players[rf.idx].stats.latestMatchId}
    ]_vars

\* C29: when the aggregate of a player has no marker and the listing is not
\* empty, the incremental run sets the marker to the head of the listing and
\* ends: no match detail is looked up (cache and budget as they were), and
\* totalGames, byChampion and the per-champion counts (those of the rows of
\* byChampion, where the stored aggregate has no counts map yet) are the stored
\* ones, in memory and in the document it writes
C29_FirstRunSeeding ==
  [][(/\ rf.pc = "aggList"
      /\ rf' # rf
      /\ cnt' = cnt
      /\ rf.state.players[rf.idx].stats.latestMatchId = 0
      /\ prov[rf.idx].games # <<>>)
       => LET p == rf.idx
              old == disk.players[p].stats
              new == rf'.state.players[p].stats
          IN  /\ new.latestMatchId = Len(prov[p].games)
              /\ new.totalGames = old.totalGames
              /\ new.byChampion = old.byChampion
              /\ old.hasCounts => new.counts = old.counts
              /\ ~old.hasCounts =>
                   \A c \in Champs :
                     new.counts[c]
                       = SumSeq([i \in 1..Len(old.byChampion) |->
                                   IF old.byChampion[i].championId = c
                                   THEN old.byChampion[i].count ELSE 0])
              /\ disk'.players[p].stats = new
              /\ rf'.pc = "l5List"
              /\ cache' = cache
              /\ budget' = budget
    ]_vars

\* player 2, stored with one counted game and no marker, was seeded: the marker
\* is at the head of the listing and no detail of the player was ever fetched
C29_Witness ==
  /\ rf.pc = "l5List"
  /\ rf.idx = 2
  /\ disk.players[2].stats.latestMatchId = Len(prov[2].games)
  /\ disk.players[2].stats.totalGames = 1
  /\ disk.players[2].stats.counts[1] = 1
  /\ \A k \in cache : k[1] # 2

\* C30: an incremental run that got a non-empty listing leaves the marker of the
\* aggregate at the head id of that listing, with an empty delta as with a delta
\* that was walked, and a run that returns has written it to the document; a run
\* that got an empty listing leaves the marker and the document as they were
C30_CursorAtHead ==
  [][\A p \in Players :
       LET head == Len(prov[p].games)
           new == rf'.state.players[p].stats
       IN  /\ (rf.pc = "aggList" /\ rf.idx = p /\ rf' # rf /\ cnt' = cnt)
                => IF head = 0
                   THEN /\ new.latestMatchId = rf.state.players[p].stats.latestMatchId
                        /\ disk' = disk
                        /\ rf'.pc = "l5List"
                   ELSE /\ new.latestMatchId = head
                        /\ rf'.pc = "l5List" =>
                             disk'.players[p].stats.latestMatchId = head
           /\ (rf.pc = "aggDetail" /\ rf.idx = p /\ rf' # rf)
                => /\ new.latestMatchId = head
                   /\ rf'.pc = "l5List" =>
                        disk'.players[p].stats.latestMatchId = head
    ]_vars

\* the second cycle ran the aggregator for player 1 with nothing new in the
\* listing: the marker stays at its head, in the document as well
C30_Witness ==
  /\ rf.pc = "l5List"
  /\ rf.idx = 1
  /\ rf.nowIso = 2
  /\ rf.newIds = <<>>
  /\ Len(prov[1].games) = 3
  /\ cache = {<<1, 2>>, <<1, 3>>}
  /\ budget = BudgetPerRefresh
  /\ disk.players[1].stats.latestMatchId = 3
  /\ disk.players[1].soloWL = [set |-> TRUE, wins |-> prov[1].rank.wins,
                               losses |-> prov[1].rank.losses]


(***************************************************************************)
(* Ban records and history entries in the persisted document.              *)
(***************************************************************************)
IsPrefixOf(s, t) == Len(s) <= Len(t) /\ \A i \in 1..Len(s) : t[i] = s[i]

IsSuffixOf(s, t) ==
  Len(s) <= Len(t) /\ \A i \in 1..Len(s) : t[Len(t) - Len(s) + i] = s[i]

\* C31: a ban record and a history entry that are in the persisted document stay
\* in it, unmodified, through every later write of a refresh cycle or a ban
\* request: a write only appends to a player's bans and only puts entries in
\* front of banHistory
C31_BansImmutable ==
  [][/\ \A p \in Players : IsPrefixOf(disk.players[p].bans, disk'.players[p].bans)
     /\ IsSuffixOf(disk.banHistory, disk'.banHistory)
    ]_vars


\* C32: a call of riotFetch that the provider answers with 429 at every attempt
\* ends with an error, in the bootstrap pass as in the server: it does not go on
\* sending requests for ever
C32_BootCallFails ==
  (gate.pc = "fetch" /\ gate.sustained) ~> (gate.pc \in {"failed", "rateLimited"})


\* C33: a write of the document that moves the currentRank of a player without a
\* pending promotion to a rank that is a promotion over the one stored before
\* also sets pendingBan, with from the old and to the new rank
C33_NoPromotionLost ==
  [][\A p \in Players :
       LET old == disk.players[p]
           new == disk'.players[p]
       IN  (~old.pendingBan.set /\ isPromotion(old.currentRank, new.currentRank))
             => /\ new.pendingBan.set
                /\ new.pendingBan.from = old.currentRank
                /\ new.pendingBan.to = new.currentRank
    ]_vars


\* C34: when the body of a player whose win+loss total changed ends with an
\* error, the total stored for the player in the document is still the one the
\* cycle started from, so that the next cycle sees the change again
C34_ChangeNotConsumed ==
  (rf.pc = "threw" /\ rf.newTotal # rf.prevTotal)
    => PrevTotalOf(disk.players[rf.idx]) = rf.prevTotal


\* C35: isPromotion is false whenever the previous or the new snapshot is
\* missing or unranked, and the promotion check of a refresh cycle on a player
\* whose stored rank is missing or unranked leaves pendingBan unset whatever
\* rank the lookup returned
C35_UnrankedNeverPromotes ==
  (rk.done /\ (Missing(rk.prev) \/ Missing(rk.new))) =>
    /\ ~rk.res
    /\ Missing(rk.prev) =>
         LET pl == [FreshPlayer EXCEPT !.currentRank = rk.prev]
         IN  /\ Missing(PrevRankOf(pl))
             /\ PromoCheck(pl, PrevRankOf(pl), rk.new, 1).pendingBan = NoPending

\* an unranked player was compared with the first placement in GOLD II
C35_Witness ==
  /\ rk.done
  /\ rk.prev = UnrankedRank
  /\ rk.new = Ranked("GOLD", "II", 75, 10, 10)
  /\ ~rk.res


\* C36: the promotion comparison of the older server and the one of the newer
\* server return the same verdict for every pair of snapshots
C36_ComparisonsAgree == rk.done => rk.res = rk.resOld


\* the history entries of player p in document doc
HistoryOf(doc, p) == {i \in 1..Len(doc.banHistory) : doc.banHistory[i].playerId = p}

\* C37: in every persisted document each player has as many ban records as
\* banHistory has entries for the player, and every history entry carries the
\* promotion that justified it
C37_BansMatchHistory ==
  /\ \A p \in DOMAIN disk.players :
       Len(disk.players[p].bans) = Cardinality(HistoryOf(disk, p))
  /\ \A i \in 1..Len(disk.banHistory) :
       /\ disk.banHistory[i].playerId \in DOMAIN disk.players
       /\ disk.banHistory[i].promotion.set

\* a ban was recorded on top of the one on record, and a refresh cycle that
\* loaded the document afterwards has saved it
C37_Witness ==
  /\ bn.pc = "done"
  /\ bn.status = 200
  /\ rf.pc = "done"
  /\ disk = rf.state
  /\ Len(disk.players[1].bans) = 2
  /\ Len(disk.banHistory) = 2


\* the workers that were started and all ran to the end of their loop
PoolReturned ==
  /\ pool.pc = "running"
  /\ \A w \in 1..Min2(CONCURRENCY, pool.len) : pool.workers[w].pc = "done"

\* C38: no index of matchIds is handed out twice, at most min(3, length) detail
\* lookups are in flight at once, and when every worker ran to its end every
\* index was handed out and the total equals the sum of the counts and the
\* number of records with a numeric championId of the player
C38_PoolExactlyOnce ==
  /\ \A i, j \in 1..Len(pool.claims) : i # j => pool.claims[i] # pool.claims[j]
  /\ \A i \in 1..Len(pool.claims) : pool.claims[i] \in 1..pool.len
  /\ Cardinality({w \in Workers : pool.workers[w].pc \in {"fetching", "hit"}})
       <= Min2(CONCURRENCY, pool.len)
  /\ PoolReturned =>
       /\ {pool.claims[i] : i \in 1..Len(pool.claims)} = 1..pool.len
       /\ pool.total = SumOver(pool.counts, PoolChamps)
       /\ pool.total = Cardinality({i \in 1..pool.len : pool.champs[i] \in Champs})

\* five matches, one of them without the player, were counted by three workers
C38_Witness ==
  /\ PoolReturned
  /\ pool.len = 5
  /\ pool.total = 4
  /\ pool.counts[1] = 3
  /\ pool.counts[2] = 1
  /\ pool.started = 3
  /\ Len(pool.claims) = 5

====
